---- MODULE Spec2Model ----
(***************************************************************************)
(* Plot lifecycle, reservation workflow and burial-record workflow of the  *)
(* cemetery backend: the plots, plot_reservations, graves and              *)
(* burial_requests tables and the handlers that write them.                *)
(*                                                                         *)
(* Spec      every handler as one atomic step (one request at a time).     *)
(* SpecRace  two sessions, each running one transaction statement by       *)
(*           statement under PostgreSQL row locks (SELECT ... FOR UPDATE). *)
(*                                                                         *)
(* Every handler h is modelled by hCode, the HTTP status it answers in the *)
(* current state, and h, its effect on the tables (none unless hCode is a  *)
(* success).                                                               *)
(***************************************************************************)
EXTENDS Integers, Sequences, FiniteSets, TLC

VARIABLES plots, reservations, touched, graves, requests, person, tx, locks

dbvars == <<plots, reservations, touched, graves, requests, person>>
vars == <<plots, reservations, touched, graves, requests, person, tx, locks>>

(* ------------------------------ bounds --------------------------------- *)
NumPlots == 1
NumVisitors == 2
MaxRes == 2
MaxGraves == 2
MaxReq == 1
MaxRows == 4
NumNames == 1

Plots == 1..NumPlots
Visitors == 1..NumVisitors
AdminId == 0
UserIds == Visitors \cup {AdminId}
Null == "null"
NoPlot == 0
(* the deceased's name and dates, as one value; NoName is an absent or empty one *)
Names == 1..NumNames
NoName == 0

(* ------------------------------ schema --------------------------------- *)
PlotStatus == {"available", "reserved", "occupied", "maintenance"}
ResStatus == {"pending", "approved", "rejected", "cancelled", "completed"}
PayStatus == {"unpaid", "submitted", "validated", "approved", "accepted", "rejected"}
ReqStatus == {"pending", "approved", "canceled", "confirmed"}

Role(u) == IF u \in Visitors THEN "visitor" ELSE "admin"

ResIds == 1..Len(reservations)
GraveIds == 1..Len(graves)
ReqIds == 1..Len(requests)

(* validated stands for the payment_validated_at column being set *)
NewRes(p, u) ==
  [plot |-> p, user |-> u, status |-> "pending", pay |-> "unpaid",
   receipt |-> FALSE, validated |-> FALSE]
NewGrave(p, act, name) == [plot |-> p, active |-> act, name |-> name]
(* DELETE FROM graves WHERE id = g *)
DeleteRow(gr, g) == SubSeq(gr, 1, g - 1) \o SubSeq(gr, g + 1, Len(gr))
NewReq(p, u, name) == [plot |-> p, user |-> u, status |-> "pending", name |-> name]

ActiveRes == {"pending", "approved"}
ClosedRes == {"rejected", "cancelled", "completed"}

(* touched lists the approved reservations, least recently updated first:  *)
(* the order of updated_at among the rows createBurialRequest selects from *)
Touch(order, rs, ids) ==
  LET keep == SelectSeq(order, LAMBDA i : i \notin ids /\ rs[i].status = "approved")
      RECURSIVE app(_, _)
      app(s, n) == IF n > Len(rs) THEN s
                   ELSE app(IF n \in ids /\ rs[n].status = "approved"
                              THEN Append(s, n) ELSE s, n + 1)
  IN app(keep, 1)

(* ------------------------- queries (SQL SELECTs) ----------------------- *)
(* SELECT COUNT FROM graves WHERE plot_id = p (is_active is not looked at) *)
plotHasAnyGrave(gr, p) == \E g \in 1..Len(gr) : gr[g].plot = p

(* SELECT 1 FROM plot_reservations WHERE plot_id = p AND user_id = u       *)
(*   AND status IN (pending, approved)                                     *)
DupActive(rs, p, u) ==
  \E r \in 1..Len(rs) : rs[r].plot = p /\ rs[r].user = u /\ rs[r].status \in ActiveRes

(* SELECT COUNT WHERE plot_id = p AND id <> r AND status = approved *)
OtherApproved(rs, p, r) ==
  \E o \in 1..Len(rs) : o # r /\ rs[o].plot = p /\ rs[o].status = "approved"

(* SELECT COUNT, or SELECT 1, WHERE plot_id = p AND id <> r AND status IN (pending, approved) *)
OtherActive(rs, p, r) ==
  \E o \in 1..Len(rs) : o # r /\ rs[o].plot = p /\ rs[o].status \in ActiveRes

(* SELECT 1 WHERE plot_id = p AND user_id = u AND status = approved *)
ApprovedFor(rs, p, u) ==
  {r \in 1..Len(rs) : rs[r].plot = p /\ rs[r].user = u /\ rs[r].status = "approved"}

(* UPDATE plot_reservations ... SET updated_at = NOW(): the rows written, and their place in the updated_at order *)
SetRes(rs, ids) ==
  /\ reservations' = rs
  /\ touched' = Touch(touched, rs, ids)

(* =========================== visitor.controller ======================== *)
(* reservePlot refusing an occupied plot only *)
reservePlotLocked_OccupiedOnly(s) == s = "occupied"

(* reservePlot: the plot row is locked for the reservation *)
reservePlotLocked(s) == s = "occupied" \/ s = "reserved"

reservePlotCode(u, p) ==
  IF reservePlotLocked(plots[p]) THEN 409
  ELSE IF DupActive(reservations, p, u) THEN 409
  ELSE 201

(* INSERT INTO plot_reservations ... 'pending'; the plot row is not written *)
reservePlotWrite(u, p) ==
  /\ SetRes(Append(reservations, NewRes(p, u)), {})
  /\ UNCHANGED <<plots, graves, requests, person>>

reservePlot(u, p) ==
  IF reservePlotCode(u, p) # 201 THEN UNCHANGED dbvars
  ELSE reservePlotWrite(u, p)

(* cancelReservation selecting the reservation by id alone *)
cancelReservationCode_AnyUser(u, r) ==
  IF reservations[r].status = "cancelled" THEN 400 ELSE 200

cancelReservationCode(u, r) ==
  IF reservations[r].user # u THEN 404
  ELSE IF reservations[r].status = "cancelled" THEN 400
  ELSE 200

cancelReservation(u, r) ==
  IF cancelReservationCode(u, r) # 200 THEN UNCHANGED dbvars
  ELSE LET p == reservations[r].plot
           rs == [reservations EXCEPT ![r].status = "cancelled"]
       IN /\ SetRes(rs, {r})
          /\ plots' = IF plots[p] = "reserved" /\ ~OtherApproved(rs, p, r)
                        THEN [plots EXCEPT ![p] = "available"]
                        ELSE plots
          /\ UNCHANGED <<graves, requests, person>>

(* uploadReservationReceipt: payment_status for which a new receipt is refused *)
uploadPayBlocked(pay) == pay = "accepted"

uploadReservationReceiptCode(u, r) ==
  IF reservations[r].user # u THEN 404
  ELSE IF reservations[r].status \in ClosedRes THEN 409
  ELSE IF uploadPayBlocked(reservations[r].pay) THEN 409
  ELSE 200

uploadReservationReceipt(u, r) ==
  IF uploadReservationReceiptCode(u, r) # 200 THEN UNCHANGED dbvars
  ELSE /\ SetRes([reservations EXCEPT ![r].receipt = TRUE, ![r].pay = "submitted"], {r})
       /\ UNCHANGED <<plots, graves, requests, person>>

(* approveReservationAsAdmin (visitor controller): payment_status it accepts *)
visitorPayOk(pay) == pay \in {"submitted", "accepted"}

(* the plot check refusing a reserved plot only *)
visitorApprovePlotLocked_ReservedOnly(s) == s = "reserved"

visitorApprovePlotLocked(s) == s = "occupied" \/ s = "reserved"

(* the checks on the locked reservation row; 0 when the row passes them.   *)
(* An approved reservation is answered 200 "Already approved".             *)
visitorApproveRowCode(row) ==
  IF row.status = "approved" THEN 200
  ELSE IF row.status \in ClosedRes THEN 409
  ELSE IF ~row.receipt THEN 409
  ELSE IF ~visitorPayOk(row.pay) THEN 409
  ELSE 0

visitor_approveReservationAsAdminCode(r) ==
  LET row == reservations[r]
  IN IF visitorApproveRowCode(row) # 0 THEN visitorApproveRowCode(row)
     ELSE IF visitorApprovePlotLocked(plots[row.plot]) THEN 409
     ELSE 200

(* UPDATE plot_reservations SET status = 'approved'; UPDATE plots SET      *)
(* status = 'reserved'; the other pending reservations of the plot are     *)
(* rejected                                                                *)
visitor_approveReservationAsAdminWrite(r) ==
  LET p == reservations[r].plot
      others == {o \in ResIds : o # r /\ reservations[o].plot = p
                                 /\ reservations[o].status = "pending"}
      rs == [o \in ResIds |->
               IF o = r THEN [reservations[o] EXCEPT !.status = "approved"]
               ELSE IF o \in others THEN [reservations[o] EXCEPT !.status = "rejected"]
               ELSE reservations[o]]
  IN /\ SetRes(rs, others \cup {r})
     /\ plots' = [plots EXCEPT ![p] = "reserved"]
     /\ UNCHANGED <<graves, requests, person>>

visitor_approveReservationAsAdmin(r) ==
  IF visitor_approveReservationAsAdminCode(r) # 200 \/ reservations[r].status = "approved"
    THEN UNCHANGED dbvars
  ELSE visitor_approveReservationAsAdminWrite(r)

visitor_rejectReservationAsAdminCode(r) ==
  IF reservations[r].status = "rejected" THEN 200
  ELSE IF reservations[r].status = "cancelled" THEN 409
  ELSE 200

visitor_rejectReservationAsAdmin(r) ==
  IF visitor_rejectReservationAsAdminCode(r) # 200 \/ reservations[r].status = "rejected"
    THEN UNCHANGED dbvars
  ELSE LET p == reservations[r].plot
           rs == [reservations EXCEPT ![r].status = "rejected"]
       IN /\ SetRes(rs, {r})
          /\ plots' = IF ~OtherActive(rs, p, r)
                        THEN [plots EXCEPT ![p] = "available"]
                        ELSE plots
          /\ UNCHANGED <<graves, requests, person>>

(* cancelReservationAsAdmin (visitor controller) answers 200 in every case *)
visitor_cancelReservationAsAdmin(r) ==
  IF reservations[r].status = "cancelled" THEN UNCHANGED dbvars
  ELSE LET p == reservations[r].plot
           rs == [reservations EXCEPT ![r].status = "cancelled"]
       IN /\ SetRes(rs, {r})
          /\ plots' = IF ~OtherActive(rs, p, r)
                        THEN [plots EXCEPT ![p] = "available"]
                        ELSE plots
          /\ UNCHANGED <<graves, requests, person>>

acceptPaymentAsAdmin(r) ==
  /\ SetRes([reservations EXCEPT ![r].pay = "accepted"], {r})
  /\ UNCHANGED <<plots, graves, requests, person>>

rejectPaymentAsAdmin(r) ==
  /\ SetRes([reservations EXCEPT ![r].pay = "rejected"], {r})
  /\ UNCHANGED <<plots, graves, requests, person>>

(* ============================ plot.controller ========================== *)
(* reservePlotAsAdmin: the locked plot row refuses the reservation *)
adminReserveBlocked(s) == s # "available"

reservePlotAsAdminCode(u, p) ==
  IF Role(u) # "visitor" THEN 400
  ELSE IF adminReserveBlocked(plots[p]) THEN 409
  ELSE 201

(* INSERT INTO plot_reservations ... 'pending'; UPDATE plots SET status = 'reserved' *)
reservePlotAsAdminWrite(u, p) ==
  /\ SetRes(Append(reservations, NewRes(p, u)), {})
  /\ plots' = [plots EXCEPT ![p] = "reserved"]
  /\ UNCHANGED <<graves, requests, person>>

reservePlotAsAdmin(u, p) ==
  IF reservePlotAsAdminCode(u, p) # 201 THEN UNCHANGED dbvars
  ELSE reservePlotAsAdminWrite(u, p)

validatePaymentAsAdminCode(r) ==
  IF reservations[r].status \in ClosedRes THEN 409
  ELSE IF ~reservations[r].receipt THEN 409
  ELSE 200

validatePaymentAsAdmin(r) ==
  IF validatePaymentAsAdminCode(r) # 200 THEN UNCHANGED dbvars
  ELSE /\ SetRes([reservations EXCEPT ![r].pay = "validated", ![r].validated = TRUE], {r})
       /\ UNCHANGED <<plots, graves, requests, person>>

(* approvePaymentAsAdmin without the receipt check *)
approvePaymentAsAdminCode_NoReceiptCheck(r) ==
  IF reservations[r].status \in ClosedRes THEN 409 ELSE 200

approvePaymentAsAdminCode(r) ==
  IF reservations[r].status \in ClosedRes THEN 409
  ELSE IF ~reservations[r].receipt THEN 409
  ELSE 200

approvePaymentAsAdmin(r) ==
  IF approvePaymentAsAdminCode(r) # 200 THEN UNCHANGED dbvars
  ELSE /\ SetRes([reservations EXCEPT ![r].pay = "approved"], {r})
       /\ UNCHANGED <<plots, graves, requests, person>>

plot_rejectReservationAsAdminCode(r) ==
  IF reservations[r].status # "pending" THEN 409 ELSE 200

plot_rejectReservationAsAdmin(r) ==
  IF plot_rejectReservationAsAdminCode(r) # 200 THEN UNCHANGED dbvars
  ELSE LET p == reservations[r].plot
           rs == [reservations EXCEPT ![r].status = "rejected"]
       IN /\ SetRes(rs, {r})
          /\ plots' = IF ~OtherActive(rs, p, r) /\ plots[p] # "occupied"
                        THEN [plots EXCEPT ![p] = "available"]
                        ELSE plots
          /\ UNCHANGED <<graves, requests, person>>

plot_cancelReservationAsAdminCode(r) ==
  IF reservations[r].status \notin ActiveRes THEN 409 ELSE 200

plot_cancelReservationAsAdmin(r) ==
  IF plot_cancelReservationAsAdminCode(r) # 200 THEN UNCHANGED dbvars
  ELSE LET p == reservations[r].plot
           rs == [reservations EXCEPT ![r].status = "cancelled"]
       IN /\ SetRes(rs, {r})
          /\ plots' = IF ~OtherActive(rs, p, r) /\ plots[p] # "occupied"
                        THEN [plots EXCEPT ![p] = "available"]
                        ELSE plots
          /\ UNCHANGED <<graves, requests, person>>

(* approveReservationAsAdmin (plot controller): payment_status it requires *)
plotPayOk(pay) == pay = "validated"

(* approveReservationAsAdmin (plot controller): the locked plot row refuses the approval *)
plotApproveBlocked(s) == s = "occupied"

(* the checks on the locked reservation row; 0 when the row passes them *)
plotApproveRowCode(row) ==
  IF row.status # "pending" THEN 409
  ELSE IF ~row.receipt THEN 400
  ELSE IF ~plotPayOk(row.pay) THEN 409
  ELSE 0

plot_approveReservationAsAdminCode(r) ==
  LET row == reservations[r]
  IN IF plotApproveRowCode(row) # 0 THEN plotApproveRowCode(row)
     ELSE IF plotApproveBlocked(plots[row.plot]) THEN 409
     ELSE IF OtherActive(reservations, row.plot, r) THEN 409
     ELSE 200

(* UPDATE plot_reservations SET status = 'approved', payment_status =      *)
(* 'approved'; UPDATE plots SET status = 'reserved'                        *)
plot_approveReservationAsAdminWrite(r) ==
  /\ SetRes([reservations EXCEPT ![r].status = "approved", ![r].pay = "approved"], {r})
  /\ plots' = [plots EXCEPT ![reservations[r].plot] = "reserved"]
  /\ UNCHANGED <<graves, requests, person>>

plot_approveReservationAsAdmin(r) ==
  IF plot_approveReservationAsAdminCode(r) # 200 THEN UNCHANGED dbvars
  ELSE plot_approveReservationAsAdminWrite(r)

(* ==================== admin.controller: burial records ================= *)
ActOpt == {"true", "false", Null}

(* no status check after the lock, as in the /graves controller *)
addBurialBlocked_Unchecked(s) == FALSE

(* addBurialRecord: the locked plot row refuses the record *)
addBurialBlocked(s) == s = "occupied"

admin_addBurialRecordCode(p) ==
  IF addBurialBlocked(plots[p]) THEN 409 ELSE 201

(* UPDATE plots SET person_full_name, date_of_birth, date_of_death *)
updatePlotPersonFields(p, name) == person' = [person EXCEPT ![p] = name]

(* INSERT INTO graves; UPDATE plots SET status = 'occupied'; the person    *)
(* fields of the plot are set from the request body                        *)
admin_addBurialRecordWrite(p, act, name) ==
  /\ graves' = Append(graves, NewGrave(p, act, name))
  /\ plots' = [plots EXCEPT ![p] = "occupied"]
  /\ updatePlotPersonFields(p, name)
  /\ UNCHANGED <<reservations, touched, requests>>

admin_addBurialRecord(p, act, name) ==
  IF admin_addBurialRecordCode(p) # 201 THEN UNCHANGED dbvars
  ELSE admin_addBurialRecordWrite(p, act, name)

(* the plot rows after the graves row moved from old to final *)
PlotsAfterEdit(gr, old, final) ==
  LET occ == [plots EXCEPT ![final] = "occupied"]
  IN IF old # final /\ ~plotHasAnyGrave(gr, old)
       THEN [occ EXCEPT ![old] = "available"]
       ELSE occ

(* UPDATE graves SET plot_id = COALESCE(np, plot_id), deceased_name =       *)
(* COALESCE(name, deceased_name), is_active = COALESCE(act, is_active)     *)
GravesAfterEdit(g, np, act, name) ==
  [graves EXCEPT ![g].plot = IF np = NoPlot THEN @ ELSE np,
                 ![g].active = IF act = Null THEN @ ELSE act = "true",
                 ![g].name = IF name = NoName THEN @ ELSE name]

admin_editBurialRecordCode(g, np) ==
  IF np # NoPlot /\ np # graves[g].plot /\ plots[np] = "occupied" THEN 409 ELSE 200

admin_editBurialRecord(g, np, act, name) ==
  IF admin_editBurialRecordCode(g, np) # 200 THEN UNCHANGED dbvars
  ELSE LET gr == GravesAfterEdit(g, np, act, name)
       IN /\ graves' = gr
          /\ plots' = PlotsAfterEdit(gr, graves[g].plot, gr[g].plot)
          /\ UNCHANGED <<reservations, touched, requests, person>>

(* the plot rows after a graves row of plot p was deleted *)
PlotsAfterDelete(gr, p) ==
  IF ~plotHasAnyGrave(gr, p) THEN [plots EXCEPT ![p] = "available"] ELSE plots

admin_deleteBurialRecord(g) ==
  LET gr == DeleteRow(graves, g)
  IN /\ graves' = gr
     /\ plots' = PlotsAfterDelete(gr, graves[g].plot)
     /\ UNCHANGED <<reservations, touched, requests, person>>

(* ================ admin.controller: confirm a burial request =========== *)
(* confirming without looking for the holder's approved reservation *)
confirmHasReservation_Unchecked(rs, p, u) == TRUE

(* confirmBurialRequestAsAdmin: an approved reservation of the requester   *)
(* for the plot exists                                                     *)
confirmHasReservation(rs, p, u) == ApprovedFor(rs, p, u) # {}

(* a confirmed request is answered 200 "Already confirmed" *)
confirmBurialRequestAsAdminCode(q) ==
  LET br == requests[q]
  IN IF br.status = "confirmed" THEN 200
     ELSE IF br.status = "canceled" THEN 409
     ELSE IF plots[br.plot] = "occupied" THEN 409
     ELSE IF ~confirmHasReservation(reservations, br.plot, br.user) THEN 409
     ELSE 200

confirmBurialRequestAsAdmin(q) ==
  IF confirmBurialRequestAsAdminCode(q) # 200 \/ requests[q].status = "confirmed"
    THEN UNCHANGED dbvars
  ELSE LET br == requests[q]
           done == ApprovedFor(reservations, br.plot, br.user)
           rs == [r \in ResIds |-> IF r \in done
                                     THEN [reservations[r] EXCEPT !.status = "completed"]
                                     ELSE reservations[r]]
       IN /\ graves' = Append(graves, NewGrave(br.plot, TRUE, br.name))
          /\ plots' = [plots EXCEPT ![br.plot] = "occupied"]
          /\ updatePlotPersonFields(br.plot, br.name)
          /\ requests' = [requests EXCEPT ![q].status = "confirmed"]
          /\ SetRes(rs, done)

(* ===================== burial-records.controller (/graves) ============= *)
graves_addBurialRecord(p, act, name) ==
  /\ graves' = Append(graves, NewGrave(p, act, name))
  /\ plots' = [plots EXCEPT ![p] = "occupied"]
  /\ UNCHANGED <<reservations, touched, requests, person>>

(* editBurialRecord (/graves) answers 200 for every record it finds *)
graves_editBurialRecordCode(g, np) == 200

graves_editBurialRecord(g, np, act, name) ==
  LET gr == GravesAfterEdit(g, np, act, name)
  IN /\ graves' = gr
     /\ plots' = PlotsAfterEdit(gr, graves[g].plot, gr[g].plot)
     /\ UNCHANGED <<reservations, touched, requests, person>>

graves_deleteBurialRecord(g) ==
  LET gr == DeleteRow(graves, g)
  IN /\ graves' = gr
     /\ plots' = PlotsAfterDelete(gr, graves[g].plot)
     /\ UNCHANGED <<reservations, touched, requests, person>>

(* ============================ staff.controller ========================= *)
createBurialSchedule(p, name) ==
  /\ plots' = [plots EXCEPT ![p] = "occupied"]
  /\ graves' = Append(graves, NewGrave(p, TRUE, name))
  /\ UNCHANGED <<reservations, touched, requests, person>>

changeTicketStatus(q, st) ==
  /\ requests' = [requests EXCEPT ![q].status = st]
  /\ UNCHANGED <<plots, reservations, touched, graves, person>>

(* ================= visitor.controller: burial requests ================= *)
(* the approved reservations of user u, least recently updated first *)
ApprovedOf(u) == SelectSeq(touched, LAMBDA r : reservations[r].user = u)

DupRequest(p) ==
  \E q \in ReqIds : requests[q].plot = p /\ requests[q].status \in {"pending", "approved"}

createBurialRequestCode(u) ==
  LET mine == ApprovedOf(u)
  IN IF mine = <<>> THEN 409
     ELSE IF plots[reservations[mine[Len(mine)]].plot] = "occupied" THEN 409
     ELSE IF DupRequest(reservations[mine[Len(mine)]].plot) THEN 409
     ELSE 201

createBurialRequest(u, name) ==
  IF createBurialRequestCode(u) # 201 THEN UNCHANGED dbvars
  ELSE LET mine == ApprovedOf(u)
       IN /\ requests' = Append(requests, NewReq(reservations[mine[Len(mine)]].plot, u, name))
          /\ UNCHANGED <<plots, reservations, touched, graves, person>>

(* a cancellation that also gives the request's plot back *)
cancelBurialRequest_FreesPlot(q) ==
  /\ requests' = [requests EXCEPT ![q].status = "canceled"]
  /\ plots' = [plots EXCEPT ![requests[q].plot] = "available"]
  /\ UNCHANGED <<reservations, touched, graves, person>>

cancelBurialRequest(q) ==
  /\ requests' = [requests EXCEPT ![q].status = "canceled"]
  /\ UNCHANGED <<plots, reservations, touched, graves, person>>

(* ============================== Spec ==================================== *)
Sessions == {1, 2}
NoRes == 0
(* a session: the handler it runs, its arguments (r is the id of the       *)
(* reservation or burial record it names), the statement it is at and the  *)
(* status it answers.  old and fin are the plot_id a burial-record handler *)
(* read before and after its UPDATE, free the outcome of its               *)
(* plotHasAnyGrave.  overlap, pend and occ record what happened for the    *)
(* properties: another session was in flight at BEGIN; the reservation was *)
(* pending when read; the plot was occupied before this session asked for  *)
(* its row lock.  k counts the write statements the transaction has run,   *)
(* w is the tables as the transaction sees them with its own uncommitted   *)
(* writes, snap the committed tables at its BEGIN.                         *)
EmptyDb == [plots |-> <<>>, reservations |-> <<>>, touched |-> <<>>, graves |-> <<>>,
            requests |-> <<>>, person |-> <<>>]
IdleTx == [pc |-> "idle", op |-> "none", u |-> AdminId, p |-> NoPlot, act |-> FALSE,
           name |-> NoName, code |-> 0, overlap |-> FALSE, r |-> NoRes, pend |-> FALSE,
           occ |-> FALSE, old |-> NoPlot, fin |-> NoPlot, free |-> FALSE,
           k |-> 0, w |-> EmptyDb, snap |-> EmptyDb]

Init ==
  /\ plots = [p \in Plots |-> "available"]
  /\ reservations = <<>>
  /\ touched = <<>>
  /\ graves = <<>>
  /\ requests = <<>>
  /\ person = [p \in Plots |-> NoName]
  /\ tx = [s \in Sessions |-> IdleTx]
  /\ locks = [p \in Plots |-> 0]

(* the rows of the three tables, bounded per table and in total *)
Rows == Len(reservations) + Len(graves) + Len(requests)
CanReserve == Len(reservations) < MaxRes /\ Rows < MaxRows
CanBury == Len(graves) < MaxGraves /\ Rows < MaxRows
CanRequest == Len(requests) < MaxReq /\ Rows < MaxRows

(* a handler run on its own leaves the sessions of SpecRace alone *)
Quiet == UNCHANGED <<tx, locks>>

ReservationOps ==
  \/ \E u \in Visitors, p \in Plots : CanReserve /\ Quiet /\ reservePlot(u, p)
  \/ \E u \in Visitors, r \in ResIds : Quiet /\ cancelReservation(u, r)
  \/ \E u \in Visitors, r \in ResIds : Quiet /\ uploadReservationReceipt(u, r)
  \/ \E r \in ResIds : Quiet /\ visitor_approveReservationAsAdmin(r)
  \/ \E r \in ResIds : Quiet /\ visitor_rejectReservationAsAdmin(r)
  \/ \E r \in ResIds : Quiet /\ visitor_cancelReservationAsAdmin(r)
  \/ \E r \in ResIds : Quiet /\ acceptPaymentAsAdmin(r)
  \/ \E r \in ResIds : Quiet /\ rejectPaymentAsAdmin(r)
  \/ \E u \in UserIds, p \in Plots : CanReserve /\ Quiet /\ reservePlotAsAdmin(u, p)
  \/ \E r \in ResIds : Quiet /\ validatePaymentAsAdmin(r)
  \/ \E r \in ResIds : Quiet /\ approvePaymentAsAdmin(r)
  \/ \E r \in ResIds : Quiet /\ plot_rejectReservationAsAdmin(r)
  \/ \E r \in ResIds : Quiet /\ plot_cancelReservationAsAdmin(r)
  \/ \E r \in ResIds : Quiet /\ plot_approveReservationAsAdmin(r)

(* the handlers that write burial records directly, on the plots PS *)
RecordOps(PS) ==
  \/ \E p \in PS, act \in BOOLEAN, name \in Names :
        CanBury /\ Quiet /\ admin_addBurialRecord(p, act, name)
  \/ \E g \in GraveIds, np \in PS \cup {NoPlot}, act \in ActOpt, name \in Names \cup {NoName} :
        Quiet /\ admin_editBurialRecord(g, np, act, name)
  \/ \E g \in GraveIds : Quiet /\ admin_deleteBurialRecord(g)
  \/ \E p \in PS, act \in BOOLEAN, name \in Names :
        CanBury /\ Quiet /\ graves_addBurialRecord(p, act, name)
  \/ \E g \in GraveIds, np \in PS \cup {NoPlot}, act \in ActOpt, name \in Names \cup {NoName} :
        Quiet /\ graves_editBurialRecord(g, np, act, name)
  \/ \E g \in GraveIds : Quiet /\ graves_deleteBurialRecord(g)
  \/ \E p \in PS, name \in Names : CanBury /\ Quiet /\ createBurialSchedule(p, name)

BurialOps ==
  \/ RecordOps(Plots)
  \/ \E q \in ReqIds : CanBury /\ Quiet /\ confirmBurialRequestAsAdmin(q)

RequestOps ==
  \/ \E u \in Visitors, name \in Names : CanRequest /\ Quiet /\ createBurialRequest(u, name)
  \/ \E q \in ReqIds : Quiet /\ cancelBurialRequest(q)
  \/ \E q \in ReqIds, st \in {"pending", "approved", "canceled"} : Quiet /\ changeTicketStatus(q, st)

Next == ReservationOps \/ BurialOps \/ RequestOps

Spec == Init /\ [][Next]_vars

(* ============================= SpecBurial =============================== *)
(* The burial-record handlers alone, on a cemetery of NumMovePlots plots,  *)
(* so that a record can be moved from one plot to another.                 *)
NumMovePlots == 3
MovePlots == 1..NumMovePlots

InitBurial ==
  /\ plots = [p \in MovePlots |-> "available"]
  /\ reservations = <<>>
  /\ touched = <<>>
  /\ graves = <<>>
  /\ requests = <<>>
  /\ person = [p \in MovePlots |-> NoName]
  /\ tx = [s \in Sessions |-> IdleTx]
  /\ locks = [p \in MovePlots |-> 0]

NextBurial == RecordOps(MovePlots)

SpecBurial == InitBurial /\ [][NextBurial]_vars

(* =========================== SpecMaintenance ============================ *)
(* The reservation and burial-record handlers on plots an admin has put in *)
(* 'maintenance' with editPlots: plots without reservations, one of which  *)
(* may hold a burial record made by addBurialRecord.                       *)
InitMaintenance ==
  /\ plots = [p \in Plots |-> "maintenance"]
  /\ reservations = <<>>
  /\ touched = <<>>
  /\ graves \in {<<>>} \cup {<<NewGrave(p, TRUE, 1)>> : p \in Plots}
  /\ requests = <<>>
  /\ person = [p \in Plots |-> IF plotHasAnyGrave(graves, p) THEN 1 ELSE NoName]
  /\ tx = [s \in Sessions |-> IdleTx]
  /\ locks = [p \in Plots |-> 0]

(* reserving, paying for, approving, rejecting and cancelling a             *)
(* reservation; deleting a burial record                                   *)
NextMaintenance ==
  \/ \E u \in Visitors, p \in Plots : CanReserve /\ Quiet /\ reservePlot(u, p)
  \/ \E u \in Visitors, r \in ResIds : Quiet /\ uploadReservationReceipt(u, r)
  \/ \E r \in ResIds : Quiet /\ validatePaymentAsAdmin(r)
  \/ \E r \in ResIds : Quiet /\ visitor_approveReservationAsAdmin(r)
  \/ \E r \in ResIds : Quiet /\ plot_approveReservationAsAdmin(r)
  \/ \E r \in ResIds : Quiet /\ visitor_rejectReservationAsAdmin(r)
  \/ \E r \in ResIds : Quiet /\ plot_rejectReservationAsAdmin(r)
  \/ \E u \in Visitors, r \in ResIds : Quiet /\ cancelReservation(u, r)
  \/ \E r \in ResIds : Quiet /\ visitor_cancelReservationAsAdmin(r)
  \/ \E r \in ResIds : Quiet /\ plot_cancelReservationAsAdmin(r)
  \/ \E g \in GraveIds : Quiet /\ admin_deleteBurialRecord(g)
  \/ \E g \in GraveIds : Quiet /\ graves_deleteBurialRecord(g)

SpecMaintenance == InitMaintenance /\ [][NextMaintenance]_vars

(* ============================== SpecRace ================================ *)
(* Two sessions, one transaction each, one SQL statement per step.  A      *)
(* transaction's INSERTs and UPDATEs stay invisible to the other session   *)
(* until COMMIT (READ COMMITTED); they are applied to the tables at the    *)
(* COMMIT step.  locks[p] is the session holding the row lock of plot p.   *)

(* a plain SELECT, which never waits for a row lock *)
CanLock_NoWait(s, p) == TRUE

(* SELECT ... FROM plots WHERE id = p FOR UPDATE waits while another       *)
(* transaction holds the row lock                                          *)
CanLock(s, p) == locks[p] = 0 \/ locks[p] = s

InFlight(s) == tx[s].pc \notin {"idle", "done"}

Begin(s, op, u, p, act, name, pc) ==
  /\ tx[s].pc = "idle"
  /\ tx' = [tx EXCEPT ![s] = [IdleTx EXCEPT
                                 !.pc = pc, !.op = op, !.u = u, !.p = p, !.act = act,
                                 !.name = name,
                                 !.overlap = \E o \in Sessions : o # s /\ InFlight(o)]]
  /\ UNCHANGED <<dbvars, locks>>

Goto(s, pc) == tx' = [tx EXCEPT ![s].pc = pc]
(* an early return that answers without ROLLBACK *)
Abort_NoRollback(s, code) == tx' = [tx EXCEPT ![s].pc = "done", ![s].code = code]

(* an early return or a thrown error: ROLLBACK comes before the response *)
Abort(s, code) == tx' = [tx EXCEPT ![s].pc = "rollback", ![s].code = code]

(* BEGIN of the three handlers *)
race_begin_reservePlot(s, u, p) == Begin(s, "reservePlot", u, p, FALSE, NoName, "lockPlot")
race_begin_reservePlotAsAdmin(s, u, p) == Begin(s, "reservePlotAsAdmin", u, p, FALSE, NoName, "user")
race_begin_addBurialRecord(s, p, act, name) ==
  Begin(s, "admin_addBurialRecord", AdminId, p, act, name, "lockPlot")

(* reservePlotAsAdmin: SELECT id, role FROM users *)
race_reservePlotAsAdmin_user(s) ==
  /\ tx[s].pc = "user"
  /\ IF Role(tx[s].u) # "visitor" THEN Abort(s, 400) ELSE Goto(s, "lockPlot")
  /\ UNCHANGED <<dbvars, locks>>

(* SELECT id, status FROM plots ... FOR UPDATE, and the check of the status read *)
race_lockPlot(s) ==
  /\ tx[s].pc = "lockPlot"
  /\ CanLock(s, tx[s].p)
  /\ locks' = [locks EXCEPT ![tx[s].p] = s]
  /\ LET st == plots[tx[s].p]
     IN CASE tx[s].op = "reservePlot" ->
               IF reservePlotLocked(st) THEN Abort(s, 409) ELSE Goto(s, "dup")
          [] tx[s].op = "reservePlotAsAdmin" ->
               IF adminReserveBlocked(st) THEN Abort(s, 409) ELSE Goto(s, "insert")
          [] tx[s].op = "visitor_approveReservationAsAdmin" ->
               IF visitorApprovePlotLocked(st) THEN Abort(s, 409) ELSE Goto(s, "insert")
          [] tx[s].op = "plot_approveReservationAsAdmin" ->
               IF plotApproveBlocked(st) THEN Abort(s, 409) ELSE Goto(s, "otherActive")
          [] tx[s].op = "graves_addBurialRecord" -> Goto(s, "insert")
          [] tx[s].op = "cancelReservation" -> Goto(s, "commit")
          [] tx[s].op = "confirmBurialRequestAsAdmin" ->
               IF st = "occupied" \/ ~confirmHasReservation(reservations, tx[s].p, tx[s].u)
                 THEN Abort(s, 409) ELSE Goto(s, "commit")
          [] OTHER ->
               IF addBurialBlocked(st) THEN Abort(s, 409) ELSE Goto(s, "insert")
  /\ UNCHANGED dbvars

(* ---- approveReservationAsAdmin, both controllers ---- *)
ApproveOps == {"visitor_approveReservationAsAdmin", "plot_approveReservationAsAdmin"}

(* the reservation row lock is held from its SELECT ... FOR UPDATE to the  *)
(* end of the transaction                                                  *)
HoldsRes(s) ==
  /\ tx[s].op \in ApproveOps \cup {"cancelReservation"}
  /\ tx[s].pc \in {"lockPlot", "otherActive", "insert", "updatePlot", "rejectOthers",
                   "commit", "rollback"}

(* session o holds the row lock of reservation r: the row it selected FOR  *)
(* UPDATE, or a pending row its UPDATE ... WHERE status = 'pending' wrote  *)
HoldsRow(o, r) ==
  \/ HoldsRes(o) /\ tx[o].r = r
  \/ /\ tx[o].op = "visitor_approveReservationAsAdmin"
     /\ tx[o].pc = "commit"
     /\ r # tx[o].r
     /\ reservations[r].plot = tx[o].p
     /\ reservations[r].status = "pending"

CanLockRes(s, r) == \A o \in Sessions \ {s} : ~HoldsRow(o, r)

(* BEGIN *)
race_begin_approveReservationAsAdmin(s, op, r) ==
  /\ tx[s].pc = "idle"
  /\ tx' = [tx EXCEPT ![s] = [IdleTx EXCEPT
                                 !.pc = "lockRes", !.op = op, !.r = r,
                                 !.overlap = \E o \in Sessions : o # s /\ InFlight(o),
                                 !.occ = plots[reservations[r].plot] = "occupied"]]
  /\ UNCHANGED <<dbvars, locks>>

(* SELECT * FROM plot_reservations WHERE id = r FOR UPDATE, and the checks *)
(* of the row read                                                         *)
race_lockReservation(s) ==
  /\ tx[s].pc = "lockRes"
  /\ CanLockRes(s, tx[s].r)
  /\ LET row == reservations[tx[s].r]
         c == CASE tx[s].op = "visitor_approveReservationAsAdmin" -> visitorApproveRowCode(row)
                [] tx[s].op = "cancelReservation" ->
                     IF cancelReservationCode(tx[s].u, tx[s].r) = 200
                       THEN 0 ELSE cancelReservationCode(tx[s].u, tx[s].r)
                [] OTHER -> plotApproveRowCode(row)
     IN tx' = [tx EXCEPT ![s].p = row.plot,
                         ![s].pend = row.status = "pending",
                         ![s].code = c,
                         ![s].pc = IF c # 0 THEN "rollback" ELSE "lockPlot"]
  /\ UNCHANGED <<dbvars, locks>>

(* plot controller: SELECT 1 FROM plot_reservations, the other pending or  *)
(* approved reservations of the plot                                       *)
race_approve_otherActive(s) ==
  /\ tx[s].pc = "otherActive"
  /\ IF OtherActive(reservations, tx[s].p, tx[s].r) THEN Abort(s, 409) ELSE Goto(s, "insert")
  /\ UNCHANGED <<dbvars, locks>>

(* reservePlot: the duplicate query, against the committed rows *)
race_reservePlot_dup(s) ==
  /\ tx[s].pc = "dup"
  /\ IF DupActive(reservations, tx[s].p, tx[s].u) THEN Abort(s, 409) ELSE Goto(s, "insert")
  /\ UNCHANGED <<dbvars, locks>>

(* INSERT INTO plot_reservations, INSERT INTO graves, UPDATE plot_reservations *)
race_insert(s) ==
  /\ tx[s].pc = "insert"
  /\ Goto(s, IF tx[s].op = "reservePlot" THEN "commit" ELSE "updatePlot")
  /\ UNCHANGED <<dbvars, locks>>

(* UPDATE plots SET status = ... on the row this transaction locked *)
race_updatePlot(s) ==
  /\ tx[s].pc = "updatePlot"
  /\ CanLock(s, tx[s].p)
  /\ Goto(s, IF tx[s].op = "visitor_approveReservationAsAdmin" THEN "rejectOthers" ELSE "commit")
  /\ UNCHANGED <<dbvars, locks>>

(* visitor controller: UPDATE plot_reservations SET status = 'rejected'    *)
(* WHERE plot_id = p AND id <> r AND status = 'pending', which waits for   *)
(* the row lock of every row it writes                                     *)
race_rejectOthers(s) ==
  /\ tx[s].pc = "rejectOthers"
  /\ \A o \in ResIds :
       o # tx[s].r /\ reservations[o].plot = tx[s].p /\ reservations[o].status = "pending"
         => CanLockRes(s, o)
  /\ Goto(s, "commit")
  /\ UNCHANGED <<dbvars, locks>>

Release(s) == locks' = [p \in DOMAIN locks |-> IF locks[p] = s THEN 0 ELSE locks[p]]

race_rollback(s) ==
  /\ tx[s].pc = "rollback"
  /\ Goto(s, "done")
  /\ Release(s)
  /\ UNCHANGED dbvars

(* COMMIT: the transaction's writes become visible.  A burial record       *)
(* committed on a plot is noted in occ of the approvals that have not yet  *)
(* asked for that plot's row lock.                                         *)
race_commit(s) ==
  /\ tx[s].pc = "commit"
  /\ tx' = [o \in Sessions |->
               IF o = s
                 THEN [tx[o] EXCEPT !.pc = "done",
                                    !.code = IF tx[s].op \in ApproveOps \cup
                                                    {"cancelReservation",
                                                     "confirmBurialRequestAsAdmin"}
                                               THEN 200 ELSE 201]
               ELSE IF /\ tx[s].op = "admin_addBurialRecord"
                       /\ tx[o].op \in ApproveOps
                       /\ tx[o].pc \in {"lockRes", "lockPlot"}
                       /\ reservations[tx[o].r].plot = tx[s].p
                 THEN [tx[o] EXCEPT !.occ = TRUE]
               ELSE tx[o]]
  /\ Release(s)
  /\ CASE tx[s].op = "reservePlot" -> reservePlotWrite(tx[s].u, tx[s].p)
       [] tx[s].op = "reservePlotAsAdmin" -> reservePlotAsAdminWrite(tx[s].u, tx[s].p)
       [] tx[s].op = "visitor_approveReservationAsAdmin" ->
            visitor_approveReservationAsAdminWrite(tx[s].r)
       [] tx[s].op = "plot_approveReservationAsAdmin" ->
            plot_approveReservationAsAdminWrite(tx[s].r)
       [] tx[s].op = "graves_addBurialRecord" ->
            graves_addBurialRecord(tx[s].p, tx[s].act, tx[s].name)
       [] tx[s].op = "cancelReservation" -> cancelReservation(tx[s].u, tx[s].r)
       [] tx[s].op = "confirmBurialRequestAsAdmin" -> confirmBurialRequestAsAdmin(tx[s].r)
       [] OTHER -> admin_addBurialRecordWrite(tx[s].p, tx[s].act, tx[s].name)

NextRace ==
  \/ \E s \in Sessions, u \in Visitors, p \in Plots : race_begin_reservePlot(s, u, p)
  \/ \E s \in Sessions, u \in UserIds, p \in Plots : race_begin_reservePlotAsAdmin(s, u, p)
  \/ \E s \in Sessions, p \in Plots, act \in BOOLEAN, name \in Names :
        race_begin_addBurialRecord(s, p, act, name)
  \/ \E s \in Sessions : race_reservePlotAsAdmin_user(s)
  \/ \E s \in Sessions : race_lockPlot(s)
  \/ \E s \in Sessions : race_reservePlot_dup(s)
  \/ \E s \in Sessions : race_insert(s)
  \/ \E s \in Sessions : race_updatePlot(s)
  \/ \E s \in Sessions : race_rollback(s)
  \/ \E s \in Sessions : race_commit(s)

SpecRace == Init /\ [][NextRace]_vars

(* ============================ SpecApprove =============================== *)
(* An approval of a pending reservation racing with another approval or    *)
(* with a burial record on the same plot.  It starts with one pending      *)
(* reservation of visitor 1 on plot 1: made by reservePlot (plot           *)
(* 'available'), by reservePlotAsAdmin (plot 'reserved'), or followed by   *)
(* addBurialRecord (plot 'occupied'); without receipt, with a submitted    *)
(* receipt, or with a validated one.                                       *)
InitApprove ==
  /\ plots \in {[p \in Plots |-> IF p = 1 THEN st ELSE "available"] :
                  st \in {"available", "reserved", "occupied"}}
  /\ reservations \in
       {<<[NewRes(1, 1) EXCEPT !.receipt = pr[1], !.pay = pr[2], !.validated = pr[3]]>> :
          pr \in {<<FALSE, "unpaid", FALSE>>, <<TRUE, "submitted", FALSE>>,
                  <<TRUE, "validated", TRUE>>}}
  /\ touched = <<>>
  /\ graves = IF plots[1] = "occupied" THEN <<NewGrave(1, TRUE, 1)>> ELSE <<>>
  /\ requests = <<>>
  /\ person = [p \in Plots |-> IF plots[p] = "occupied" THEN 1 ELSE NoName]
  /\ tx = [s \in Sessions |-> IdleTx]
  /\ locks = [p \in Plots |-> 0]

NextApprove ==
  \/ \E s \in Sessions, op \in ApproveOps, r \in ResIds :
        race_begin_approveReservationAsAdmin(s, op, r)
  \/ \E s \in Sessions, p \in Plots, act \in BOOLEAN, name \in Names :
        race_begin_addBurialRecord(s, p, act, name)
  \/ \E s \in Sessions : race_lockReservation(s)
  \/ \E s \in Sessions : race_lockPlot(s)
  \/ \E s \in Sessions : race_approve_otherActive(s)
  \/ \E s \in Sessions : race_insert(s)
  \/ \E s \in Sessions : race_updatePlot(s)
  \/ \E s \in Sessions : race_rejectOthers(s)
  \/ \E s \in Sessions : race_rollback(s)
  \/ \E s \in Sessions : race_commit(s)

SpecApprove == InitApprove /\ [][NextApprove]_vars

(* ============================== properties ============================== *)
ActiveGravesOn(p) == {g \in GraveIds : graves[g].plot = p /\ graves[g].active}
GravesOn(p) == {g \in GraveIds : graves[g].plot = p}
ReservationsOn(p) == {r \in ResIds : reservations[r].plot = p}
ActiveOn(p) == {r \in ReservationsOn(p) : reservations[r].status \in ActiveRes}
ApprovedOn(p) == {r \in ReservationsOn(p) : reservations[r].status = "approved"}

(* C1: a plot's status is 'occupied' if and only if at least one active    *)
(* burial record (a graves row with is_active = true) references the plot. *)
C1_OccupiedIffActiveGrave ==
  \A p \in Plots : plots[p] = "occupied" <=> ActiveGravesOn(p) # {}

(* C2: each plot is referenced by at most one reservation whose status is  *)
(* pending or approved.                                                    *)
C2_AtMostOneActiveReservation ==
  \A p \in Plots : Cardinality(ActiveOn(p)) <= 1

(* C3: no plot is double-booked: at most one reservation per plot has      *)
(* status 'approved', over all sequences of reservation and burial-record  *)
(* operations.                                                             *)
C3_AtMostOneApproved ==
  \A p \in Plots : Cardinality(ApprovedOn(p)) <= 1

(* C7: creating a burial record on an occupied plot fails on every         *)
(* creation path, so each plot is referenced by at most one active burial  *)
(* record.                                                                 *)
C7_AtMostOneActiveGrave ==
  \A p \in Plots : Cardinality(ActiveGravesOn(p)) <= 1

(* the status recomputation rule of the plot status coordinator *)
Recomputed(p) ==
  IF ActiveGravesOn(p) # {} THEN "occupied"
  ELSE IF ActiveOn(p) # {} THEN "reserved"
  ELSE "available"

(* C8: the status stored on the plot row equals the recomputed value       *)
(* (occupied / reserved / available), a plot in 'maintenance' excepted.    *)
C8_StatusEqualsRecomputed ==
  \A p \in Plots : plots[p] # "maintenance" => plots[p] = Recomputed(p)


(* C9, one step of the scenario: a visitor's reservePlot on an available   *)
(* plot nobody reserved succeeds; a reservePlot of another visitor while a *)
(* pending or approved reservation holds the plot is refused with 409; a   *)
(* reservation that goes from pending to approved leaves its plot          *)
(* 'reserved'; a burial request that becomes confirmed adds an active      *)
(* grave on its plot, leaves the plot 'occupied' and completes the         *)
(* requester's approved reservation of the plot.                           *)
C9_Step ==
  /\ \A u \in Visitors, p \in Plots :
        /\ (plots[p] = "available" /\ ReservationsOn(p) = {})
              => reservePlotCode(u, p) = 201
        /\ (\E r \in ActiveOn(p) : reservations[r].user # u)
              => reservePlotCode(u, p) = 409
  /\ \A r \in ResIds :
        (reservations[r].status = "pending" /\ reservations'[r].status = "approved")
           => plots'[reservations[r].plot] = "reserved"
  /\ \A q \in ReqIds :
        (requests[q].status # "confirmed" /\ requests'[q].status = "confirmed")
           => /\ Len(graves') = Len(graves) + 1
              /\ graves'[Len(graves')] = NewGrave(requests[q].plot, TRUE, requests[q].name)
              /\ plots'[requests[q].plot] = "occupied"
              /\ \A r \in ResIds :
                    (/\ reservations[r].plot = requests[q].plot
                     /\ reservations[r].user = requests[q].user
                     /\ reservations[r].status = "approved")
                       => reservations'[r].status = "completed"

(* C9: visitor A reserves an available plot P (pending R1); visitor B's    *)
(* reserve of P while R1 is pending or approved returns Conflict; the      *)
(* admin's approval makes R1 approved and P reserved; the confirmed burial *)
(* leaves a grave on P, R1 completed and P occupied.                       *)
C9_ReserveApproveBury == [][C9_Step]_vars

(* C10: reservePlot, uploadReservationReceipt, validatePaymentAsAdmin,     *)
(* approvePaymentAsAdmin and approveReservationAsAdmin each succeed in     *)
(* turn on a plot nobody else touches: in every state the workflow can be  *)
(* in, its next call is answered with success.                             *)
C10_WorkflowExecutable ==
  /\ \A u \in Visitors, p \in Plots :
        (plots[p] = "available" /\ ReservationsOn(p) = {} /\ GravesOn(p) = {})
           => reservePlotCode(u, p) = 201
  /\ \A r \in ResIds :
        LET row == reservations[r]
        IN (/\ row.status = "pending"
            /\ plots[row.plot] = "available"
            /\ ReservationsOn(row.plot) = {r}
            /\ GravesOn(row.plot) = {})
             => /\ (row.pay = "unpaid" /\ ~row.receipt)
                     => uploadReservationReceiptCode(row.user, r) = 200
                /\ (row.pay = "submitted" /\ row.receipt)
                     => validatePaymentAsAdminCode(r) = 200
                /\ (row.pay = "validated" /\ row.receipt)
                     => approvePaymentAsAdminCode(r) = 200
                /\ (row.pay = "approved" /\ row.receipt /\ row.validated)
                     => \/ plot_approveReservationAsAdminCode(r) = 200
                        \/ visitor_approveReservationAsAdminCode(r) = 200

(* two sessions that ran the same handler on the same plot to the end *)
BothDone(a, b, op) ==
  /\ a # b
  /\ tx[a].op = op /\ tx[b].op = op
  /\ tx[a].pc = "done" /\ tx[b].pc = "done"
  /\ tx[a].p = tx[b].p

(* the second of the two began while the first was still in flight *)
Concurrent(a, b) == tx[a].overlap \/ tx[b].overlap

(* C4: two different visitors call reservePlot concurrently on the same    *)
(* available plot that has no reservations: exactly one gets 201, the      *)
(* other 409.                                                              *)
C4_ExactlyOneReserve ==
  \A a, b \in Sessions :
     (BothDone(a, b, "reservePlot") /\ Concurrent(a, b) /\ tx[a].u # tx[b].u)
        => {tx[a].code, tx[b].code} = {201, 409}

(* C5: of two reservePlotAsAdmin calls on the same available plot exactly  *)
(* one succeeds, inserting a pending reservation and leaving the plot      *)
(* 'reserved'; the other gets 409 and inserts nothing.                     *)
C5_ExactlyOneAdminReserve ==
  \A a, b \in Sessions :
     (/\ BothDone(a, b, "reservePlotAsAdmin")
      /\ Role(tx[a].u) = "visitor" /\ Role(tx[b].u) = "visitor")
        => /\ {tx[a].code, tx[b].code} = {201, 409}
           /\ Cardinality(ReservationsOn(tx[a].p)) = 1
           /\ \A r \in ReservationsOn(tx[a].p) : reservations[r].status = "pending"
           /\ plots[tx[a].p] = "reserved"

(* C5 case: the two calls overlapped and the one that began second won *)
C5_Witness ==
  \E a, b \in Sessions :
     /\ BothDone(a, b, "reservePlotAsAdmin")
     /\ tx[b].overlap
     /\ tx[b].code = 201 /\ tx[a].code = 409

(* C6: of two admin addBurialRecord calls on the same available plot       *)
(* exactly one succeeds, leaving one grave and the plot 'occupied'; the    *)
(* other gets 409 and inserts nothing.                                     *)
C6_ExactlyOneAddBurial ==
  \A a, b \in Sessions :
     BothDone(a, b, "admin_addBurialRecord")
        => /\ {tx[a].code, tx[b].code} = {201, 409}
           /\ Cardinality(GravesOn(tx[a].p)) = 1
           /\ plots[tx[a].p] = "occupied"

(* C6 case: the two calls overlapped and the one that began second won *)
C6_Witness ==
  \E a, b \in Sessions :
     /\ BothDone(a, b, "admin_addBurialRecord")
     /\ tx[b].overlap
     /\ tx[b].code = 201 /\ tx[a].code = 409

(* the pending or approved reservations of plot p in the next state *)
ActiveOnNext(p) ==
  {r \in 1..Len(reservations') :
     reservations'[r].plot = p /\ reservations'[r].status \in ActiveRes}

(* C11: a step that cancels a pending or approved reservation of a         *)
(* 'reserved' plot leaves the plot 'available' when no other pending or    *)
(* approved reservation of the plot remains, and 'reserved' when one does. *)
C11_CancelStep ==
  \A r \in ResIds :
     LET p == reservations[r].plot
     IN (/\ reservations[r].status \in ActiveRes
         /\ reservations'[r].status = "cancelled"
         /\ plots[p] = "reserved")
          => plots'[p] = IF ActiveOnNext(p) = {} THEN "available" ELSE "reserved"

C11_CancelReleasesOnlyLast == [][C11_CancelStep]_vars

(* C12: a step that rejects or cancels a reservation makes its plot        *)
(* 'available' only if afterwards no pending or approved reservation and   *)
(* no burial record is left on the plot; an 'occupied' plot is never made  *)
(* 'available' by it.                                                      *)
C12_ReleaseStep ==
  \A r \in ResIds :
     LET p == reservations[r].plot
     IN (/\ reservations[r].status \notin {"rejected", "cancelled"}
         /\ reservations'[r].status \in {"rejected", "cancelled"}
         /\ plots[p] # "available"
         /\ plots'[p] = "available")
          => /\ ActiveOnNext(p) = {}
             /\ ~plotHasAnyGrave(graves', p)
             /\ plots[p] # "occupied"

C12_ReleaseOnlyWhenFree == [][C12_ReleaseStep]_vars

(* C13: a step that deletes the last active burial record of an 'occupied' *)
(* plot leaves the plot 'available', also when an inactive burial record   *)
(* still references the plot.                                              *)
C13_DeleteStep ==
  \A g \in GraveIds :
     LET p == graves[g].plot
     IN (/\ graves' = DeleteRow(graves, g)
         /\ graves[g].active
         /\ plots[p] = "occupied"
         /\ \A o \in 1..Len(graves') : ~(graves'[o].plot = p /\ graves'[o].active))
          => plots'[p] = "available"

C13_DeleteLastActiveFrees == [][C13_DeleteStep]_vars

(* C14: approvePaymentAsAdmin on a reservation without a stored receipt    *)
(* answers 409, and the step leaves the reservation's payment_status as it *)
(* was.                                                                    *)
C14_Refused ==
  \A r \in ResIds : ~reservations[r].receipt => approvePaymentAsAdminCode(r) = 409

C14_Step ==
  \A r \in ResIds :
     (~reservations[r].receipt /\ approvePaymentAsAdmin(r))
        => reservations'[r].pay = reservations[r].pay

C14_NoReceiptNoApproval == [](C14_Refused) /\ [][C14_Step]_vars

(* C14 case: an open reservation without receipt, whose payment approval is refused *)
C14_Witness ==
  \E r \in ResIds :
     /\ ~reservations[r].receipt
     /\ reservations[r].status = "pending"
     /\ reservations[r].pay = "unpaid"
     /\ approvePaymentAsAdminCode(r) = 409

(* C16: once a reservation is rejected, cancelled or completed, no step    *)
(* changes its status or its payment_status.                               *)
C16_Step ==
  \A r \in ResIds :
     reservations[r].status \in ClosedRes
        => /\ reservations'[r].status = reservations[r].status
           /\ reservations'[r].pay = reservations[r].pay

C16_TerminalImmutable == [][C16_Step]_vars

(* C17: reservePlot and reservePlotAsAdmin answer 409 for a holder who     *)
(* already has a pending or approved reservation of the plot, and no       *)
(* holder has two pending or approved reservations of one plot.            *)
C17_NoDuplicateHolder ==
  \A u \in Visitors, p \in Plots :
     /\ DupActive(reservations, p, u)
          => (reservePlotCode(u, p) = 409 /\ reservePlotAsAdminCode(u, p) = 409)
     /\ Cardinality({r \in ActiveOn(p) : reservations[r].user = u}) <= 1

(* C18: reservePlot on an 'occupied' or 'reserved' plot answers 409, and   *)
(* the step inserts no reservation and leaves the plot's status alone.     *)
C18_Refused ==
  \A u \in Visitors, p \in Plots :
     plots[p] \in {"occupied", "reserved"} => reservePlotCode(u, p) = 409

C18_Step ==
  \A u \in Visitors, p \in Plots :
     (plots[p] \in {"occupied", "reserved"} /\ reservePlot(u, p))
        => (reservations' = reservations /\ plots' = plots)

C18_LockedPlotRefused == [](C18_Refused) /\ [][C18_Step]_vars

(* C18 case: a reserved plot refused to a visitor who holds no reservation of it *)
C18_Witness ==
  \E u \in Visitors, p \in Plots :
     /\ plots[p] = "reserved"
     /\ ~DupActive(reservations, p, u)
     /\ reservePlotCode(u, p) = 409

(* C19: uploadReservationReceipt succeeds only while the reservation is    *)
(* not terminal and its payment_status is not 'approved'; no step takes a  *)
(* payment_status from 'approved' back to 'submitted'.                     *)
C19_OnlyWhileOpen ==
  \A r \in ResIds :
     uploadReservationReceiptCode(reservations[r].user, r) = 200
        => (reservations[r].status \notin ClosedRes /\ reservations[r].pay # "approved")

C19_Step ==
  \A r \in ResIds :
     reservations[r].pay = "approved" => reservations'[r].pay # "submitted"

C19_UploadClosedAfterApproval == [](C19_OnlyWhileOpen) /\ [][C19_Step]_vars

(* C20: approvePaymentAsAdmin succeeds only from payment_status            *)
(* 'validated' or 'submitted' with a stored receipt; from any other        *)
(* payment_status it fails and changes nothing.                            *)
C20_OnlyFromValidatedOrSubmitted ==
  \A r \in ResIds :
     approvePaymentAsAdminCode(r) = 200
        => (reservations[r].pay \in {"validated", "submitted"} /\ reservations[r].receipt)

(* an approval that ran to its end on a reservation it read as pending,    *)
(* the plot having been occupied before the approval asked for its lock    *)
ApprovedTooLate(a) ==
  /\ tx[a].op \in ApproveOps
  /\ tx[a].pc = "done"
  /\ tx[a].pend
  /\ tx[a].occ

C21_Step ==
  \A r \in ResIds :
     (reservations[r].status # "approved" /\ reservations'[r].status = "approved")
        => /\ reservations[r].status = "pending"
           /\ reservations[r].receipt
           /\ reservations[r].pay \in {"validated", "approved"}

C21_ApprovedOnlyWhenPaid == [][C21_Step]_vars

(* a pending reservation with a stored receipt and a validated or approved *)
(* payment, on a plot that is not occupied and has another pending         *)
(* reservation                                                             *)
PaidAmongPending(r) ==
  /\ reservations[r].status = "pending"
  /\ reservations[r].receipt
  /\ reservations[r].pay \in {"validated", "approved"}
  /\ plots[reservations[r].plot] # "occupied"
  /\ \E o \in ReservationsOn(reservations[r].plot) :
        o # r /\ reservations[o].status = "pending"

C22_Accepted ==
  \A r \in ResIds :
     PaidAmongPending(r)
        => /\ visitor_approveReservationAsAdminCode(r) = 200
           /\ plot_approveReservationAsAdminCode(r) = 200

C22_Step ==
  \A r \in ResIds :
     (/\ PaidAmongPending(r)
      /\ visitor_approveReservationAsAdmin(r) \/ plot_approveReservationAsAdmin(r))
        => /\ reservations'[r].status = "approved"
           /\ \A o \in ReservationsOn(reservations[r].plot) :
                 (o # r /\ reservations[o].status = "pending")
                    => reservations'[o].status = "rejected"

(* C22: approveReservationAsAdmin, in both controllers, on a pending       *)
(* reservation with approved payment whose plot is not occupied and has    *)
(* other pending reservations succeeds, and the same step sets every other *)
(* pending reservation of the plot to 'rejected'.                          *)
C22_ApproveRejectsOthers == [](C22_Accepted) /\ [][C22_Step]_vars

(* a step of one of the four handlers that write payment_status on the way *)
(* to an approved reservation                                              *)
PaymentStep(r) ==
  \/ uploadReservationReceipt(reservations[r].user, r)
  \/ validatePaymentAsAdmin(r)
  \/ approvePaymentAsAdmin(r)
  \/ visitor_approveReservationAsAdmin(r)
  \/ plot_approveReservationAsAdmin(r)

(* C23: no step of uploadReservationReceipt, validatePaymentAsAdmin,       *)
(* approvePaymentAsAdmin or approveReservationAsAdmin takes a              *)
(* reservation's payment_status from 'approved' back to 'validated' or     *)
(* 'submitted'.                                                            *)
C23_Step ==
  \A r \in ResIds :
     (reservations[r].pay = "approved" /\ PaymentStep(r))
        => reservations'[r].pay \notin {"validated", "submitted"}

C23_PaymentNeverGoesBack == [][C23_Step]_vars

(* what a confirmation that succeeds on request q requires *)
C24_Requires(q) ==
  /\ ApprovedFor(reservations, requests[q].plot, requests[q].user) # {}
  /\ plots[requests[q].plot] # "occupied"

(* what the step of a confirmation that succeeds on request q does *)
C24_Effect(q) ==
  LET p == requests[q].plot
  IN /\ graves' = Append(graves, NewGrave(p, TRUE, requests[q].name))
     /\ \A r \in ApprovedFor(reservations, p, requests[q].user) :
           reservations'[r].status = "completed"
     /\ requests'[q].status = "confirmed"
     /\ plots'[p] = "occupied"

C24_Step ==
  \A q \in ReqIds :
     (confirmBurialRequestAsAdminCode(q) = 200 /\ confirmBurialRequestAsAdmin(q))
        => C24_Effect(q)

C24_OpenStep ==
  \A q \in ReqIds :
     (/\ requests[q].status # "confirmed"
      /\ confirmBurialRequestAsAdminCode(q) = 200
      /\ confirmBurialRequestAsAdmin(q))
        => C24_Effect(q)

C25_Refused ==
  \A g \in GraveIds, np \in MovePlots :
     (np # graves[g].plot /\ plots[np] = "occupied")
        => /\ admin_editBurialRecordCode(g, np) = 409
           /\ graves_editBurialRecordCode(g, np) = 409

C25_Step ==
  \A g \in GraveIds, np \in MovePlots, act \in ActOpt, name \in Names \cup {NoName} :
     (/\ np # graves[g].plot
      /\ plots[np] = "occupied"
      /\ admin_editBurialRecord(g, np, act, name) \/ graves_editBurialRecord(g, np, act, name))
        => (graves' = graves /\ plots' = plots)

C25_MoveToOccupiedRefused == [](C25_Refused) /\ [][C25_Step]_vars

(* the burial records of plot p among the records gr *)
RecordsOn(gr, p) == SelectSeq(gr, LAMBDA row : row.plot = p)

(* the projection pf[p] equals the name and dates of a burial record of    *)
(* plot p, and is empty when the plot has none                             *)
InSync(gr, pf, p) ==
  IF RecordsOn(gr, p) = <<>> THEN pf[p] = NoName
  ELSE \E k \in 1..Len(RecordsOn(gr, p)) : RecordsOn(gr, p)[k].name = pf[p]

(* a step of addBurialRecord, editBurialRecord, deleteBurialRecord or      *)
(* confirmBurialRequestAsAdmin                                             *)
RecordStep ==
  \/ \E p \in Plots, act \in BOOLEAN, name \in Names :
        admin_addBurialRecord(p, act, name) \/ graves_addBurialRecord(p, act, name)
  \/ \E g \in GraveIds, np \in Plots \cup {NoPlot}, act \in ActOpt, name \in Names \cup {NoName} :
        admin_editBurialRecord(g, np, act, name) \/ graves_editBurialRecord(g, np, act, name)
  \/ \E g \in GraveIds : admin_deleteBurialRecord(g) \/ graves_deleteBurialRecord(g)
  \/ \E q \in ReqIds : confirmBurialRequestAsAdmin(q)

(* C28: after a step of addBurialRecord, editBurialRecord,                 *)
(* deleteBurialRecord or confirmBurialRequestAsAdmin that changes the      *)
(* burial records of a plot, the plot's occupant projection equals the     *)
(* name and dates of the burial record on the plot, and is empty when the  *)
(* plot has no burial record.                                              *)
C28_Step ==
  RecordStep =>
     \A p \in Plots :
        RecordsOn(graves', p) # RecordsOn(graves, p) => InSync(graves', person', p)

C28_ProjectionInSync == [][C28_Step]_vars

(* C30: no step of the reservation or burial-record handlers changes the   *)
(* status of a plot that is in 'maintenance': reservePlot and              *)
(* approveReservationAsAdmin do not reserve it; rejecting or cancelling a  *)
(* reservation and deleteBurialRecord do not make it 'available'.          *)
C30_Step ==
  \A p \in Plots : plots[p] = "maintenance" => plots'[p] = "maintenance"

C30_MaintenanceUntouched == [][C30_Step]_vars

(* ============================== SpecEdit ================================ *)
(* Two sessions running editBurialRecord, one SQL statement per step, on   *)
(* the NumMovePlots plots.  A plot's row lock is taken by SELECT ... FOR   *)
(* UPDATE and by UPDATE plots, a burial record's row lock by UPDATE graves *)
(* and DELETE FROM graves; both are held to the end of the transaction.    *)
EditOps == {"admin_editBurialRecord", "graves_editBurialRecord"}
DeleteOps == {"admin_deleteBurialRecord", "graves_deleteBurialRecord"}

(* BEGIN of editBurialRecord that asks for plot_id = np and nothing else *)
race_begin_editBurialRecord(s, op, g, np) ==
  /\ tx[s].pc = "idle"
  /\ tx' = [tx EXCEPT ![s] = [IdleTx EXCEPT
                                 !.pc = "cur", !.op = op, !.r = g, !.p = np,
                                 !.overlap = \E o \in Sessions : o # s /\ InFlight(o)]]
  /\ UNCHANGED <<dbvars, locks>>

(* SELECT id, uid, plot_id FROM graves: the record's plot, read without a  *)
(* lock; the admin controller then locks the plots of a move               *)
race_cur(s) ==
  /\ tx[s].pc = "cur"
  /\ IF tx[s].r > Len(graves)
       THEN Abort(s, 404)
       ELSE LET old == graves[tx[s].r].plot
            IN tx' = [tx EXCEPT
                        ![s].old = old,
                        ![s].pc = IF tx[s].op \in DeleteOps THEN "graveRow"
                                  ELSE IF /\ tx[s].op = "admin_editBurialRecord"
                                          /\ tx[s].p # NoPlot
                                          /\ tx[s].p # old
                                    THEN "lockNew"
                                  ELSE "graveRow"]
  /\ UNCHANGED <<dbvars, locks>>

(* admin: SELECT id, status FROM plots WHERE id = newPlotId FOR UPDATE *)
race_lockNew(s) ==
  /\ tx[s].pc = "lockNew"
  /\ CanLock(s, tx[s].p)
  /\ locks' = [locks EXCEPT ![tx[s].p] = s]
  /\ IF plots[tx[s].p] = "occupied" THEN Abort(s, 409) ELSE Goto(s, "lockOld")
  /\ UNCHANGED dbvars

(* admin: SELECT id FROM plots WHERE id = oldPlotId FOR UPDATE *)
race_lockOld(s) ==
  /\ tx[s].pc = "lockOld"
  /\ CanLock(s, tx[s].old)
  /\ locks' = [locks EXCEPT ![tx[s].old] = s]
  /\ Goto(s, "graveRow")
  /\ UNCHANGED dbvars

(* the burial record's row lock is held from UPDATE graves or DELETE FROM  *)
(* graves to the end of the transaction                                    *)
HoldsGrave(s) ==
  /\ tx[s].op \in EditOps \cup DeleteOps
  /\ tx[s].pc \in {"occNew", "count", "freeOld", "recCommit", "rollback"}

(* UPDATE graves SET plot_id = COALESCE(np, plot_id) ... RETURNING *, and  *)
(* DELETE FROM graves ... RETURNING *                                      *)
race_graveRow(s) ==
  /\ tx[s].pc = "graveRow"
  /\ \A o \in Sessions \ {s} : ~(HoldsGrave(o) /\ tx[o].r = tx[s].r)
  /\ IF tx[s].op \in DeleteOps
       THEN tx' = [tx EXCEPT ![s].fin = NoPlot, ![s].pc = "count"]
       ELSE tx' = [tx EXCEPT
                     ![s].fin = IF tx[s].p = NoPlot THEN graves[tx[s].r].plot ELSE tx[s].p,
                     ![s].pc = "occNew"]
  /\ UNCHANGED <<dbvars, locks>>

(* UPDATE plots SET status = 'occupied' WHERE id = finalPlotId *)
race_occNew(s) ==
  /\ tx[s].pc = "occNew"
  /\ CanLock(s, tx[s].fin)
  /\ locks' = [locks EXCEPT ![tx[s].fin] = s]
  /\ Goto(s, IF tx[s].old # tx[s].fin THEN "count" ELSE "recCommit")
  /\ UNCHANGED dbvars

(* the burial records this transaction sees: the committed rows and its    *)
(* own UPDATE or DELETE                                                    *)
OwnGraves(s) ==
  IF tx[s].op \in DeleteOps THEN DeleteRow(graves, tx[s].r)
  ELSE GravesAfterEdit(tx[s].r, tx[s].p, Null, NoName)

(* plotHasAnyGrave(client, oldPlotId), SELECT COUNT FROM graves *)
race_count(s) ==
  /\ tx[s].pc = "count"
  /\ LET free == ~plotHasAnyGrave(OwnGraves(s), tx[s].old)
     IN tx' = [tx EXCEPT ![s].free = free,
                         ![s].pc = IF free THEN "freeOld" ELSE "recCommit"]
  /\ UNCHANGED <<dbvars, locks>>

(* UPDATE plots SET status = 'available' WHERE id = oldPlotId *)
race_freeOld(s) ==
  /\ tx[s].pc = "freeOld"
  /\ CanLock(s, tx[s].old)
  /\ locks' = [locks EXCEPT ![tx[s].old] = s]
  /\ Goto(s, "recCommit")
  /\ UNCHANGED dbvars

(* COMMIT of editBurialRecord and deleteBurialRecord *)
race_recCommit(s) ==
  /\ tx[s].pc = "recCommit"
  /\ tx' = [tx EXCEPT ![s].pc = "done", ![s].code = 200]
  /\ Release(s)
  /\ graves' = OwnGraves(s)
  /\ plots' = [p \in DOMAIN plots |->
                 IF p = tx[s].old /\ tx[s].free THEN "available"
                 ELSE IF p = tx[s].fin THEN "occupied"
                 ELSE plots[p]]
  /\ UNCHANGED <<reservations, touched, requests, person>>

(* the plot whose row lock the session's next statement asks for *)
WantsLock(s) ==
  CASE tx[s].pc \in {"lockPlot", "lockNew"} -> tx[s].p
    [] tx[s].pc \in {"lockOld", "freeOld"} -> tx[s].old
    [] tx[s].pc = "occNew" -> tx[s].fin
    [] OTHER -> NoPlot

(* session a waits for a row lock that session b holds *)
WaitsFor(a, b) ==
  \/ WantsLock(a) # NoPlot /\ locks[WantsLock(a)] = b
  \/ tx[a].pc = "graveRow" /\ HoldsGrave(b) /\ tx[b].r = tx[a].r
  \/ tx[a].pc = "lockRes" /\ HoldsRow(b, tx[a].r)
  \/ /\ tx[a].pc = "rejectOthers"
     /\ \E o \in ResIds :
          /\ o # tx[a].r /\ reservations[o].plot = tx[a].p /\ reservations[o].status = "pending"
          /\ HoldsRow(b, o)

CircularWait ==
  \E a \in Sessions : \E b \in Sessions \ {a} : WaitsFor(a, b) /\ WaitsFor(b, a)

(* PostgreSQL's deadlock detector ends one of the waiting transactions     *)
(* with an error: the handler's catch rolls back and answers 500           *)
race_deadlock(s) ==
  /\ CircularWait
  /\ \E o \in Sessions \ {s} : WaitsFor(s, o)
  /\ Abort(s, 500)
  /\ UNCHANGED <<dbvars, locks>>

(* one burial record on plot 1 and one on plot 2, both made by             *)
(* addBurialRecord of the admin controller; plot 3 is free                 *)
InitEdit ==
  /\ plots = [p \in MovePlots |-> IF p \in {1, 2} THEN "occupied" ELSE "available"]
  /\ reservations = <<>>
  /\ touched = <<>>
  /\ graves = <<NewGrave(1, TRUE, 1), NewGrave(2, TRUE, 1)>>
  /\ requests = <<>>
  /\ person = [p \in MovePlots |-> IF p \in {1, 2} THEN 1 ELSE NoName]
  /\ tx = [s \in Sessions |-> IdleTx]
  /\ locks = [p \in MovePlots |-> 0]

NextEdit ==
  \/ \E s \in Sessions, op \in EditOps, g \in GraveIds, np \in MovePlots \cup {NoPlot} :
        race_begin_editBurialRecord(s, op, g, np)
  \/ \E s \in Sessions : race_cur(s)
  \/ \E s \in Sessions : race_lockNew(s)
  \/ \E s \in Sessions : race_lockOld(s)
  \/ \E s \in Sessions : race_graveRow(s)
  \/ \E s \in Sessions : race_occNew(s)
  \/ \E s \in Sessions : race_count(s)
  \/ \E s \in Sessions : race_freeOld(s)
  \/ \E s \in Sessions : race_deadlock(s)
  \/ \E s \in Sessions : race_rollback(s)
  \/ \E s \in Sessions : race_recCommit(s)

SpecEdit == InitEdit /\ [][NextEdit]_vars

(* C26: two editBurialRecord transactions that move different burial       *)
(* records, one from plot A to plot B and the other from plot B to plot A, *)
(* never wait for each other's row locks in a circle.                      *)
CrossingMoves(a, b) ==
  /\ tx[a].op \in EditOps /\ tx[b].op \in EditOps
  /\ InFlight(a) /\ InFlight(b)
  /\ tx[a].r # tx[b].r
  /\ tx[a].old # NoPlot /\ tx[b].old # NoPlot /\ tx[a].old # tx[b].old
  /\ tx[a].p = tx[b].old /\ tx[b].p = tx[a].old

C26_NoCircularWait ==
  \A a \in Sessions : \A b \in Sessions \ {a} :
    CrossingMoves(a, b) => ~(WaitsFor(a, b) /\ WaitsFor(b, a))

(* ============================= SpecSerial =============================== *)
(* deleteBurialRecord in one session and addBurialRecord in the other, on  *)
(* the same plot, one SQL statement per step.  The plot starts 'occupied'  *)
(* by one burial record made by the admin controller's addBurialRecord.    *)
race_begin_deleteBurialRecord(s, op, g) ==
  /\ tx[s].pc = "idle"
  /\ \A o \in Sessions \ {s} : tx[o].op \notin DeleteOps
  /\ tx' = [tx EXCEPT ![s] = [IdleTx EXCEPT
                                 !.pc = "cur", !.op = op, !.r = g,
                                 !.overlap = \E o \in Sessions : o # s /\ InFlight(o)]]
  /\ UNCHANGED <<dbvars, locks>>

race_begin_graves_addBurialRecord(s, p, act, name) ==
  Begin(s, "graves_addBurialRecord", AdminId, p, act, name, "lockPlot")

InitSerial ==
  /\ plots = [p \in Plots |-> "occupied"]
  /\ reservations = <<>>
  /\ touched = <<>>
  /\ graves = <<NewGrave(1, TRUE, 1)>>
  /\ requests = <<>>
  /\ person = [p \in Plots |-> 1]
  /\ tx = [s \in Sessions |-> IdleTx]
  /\ locks = [p \in Plots |-> 0]

NextSerial ==
  \/ \E s \in Sessions, op \in DeleteOps, g \in GraveIds : race_begin_deleteBurialRecord(s, op, g)
  \/ \E s \in Sessions, p \in Plots, act \in BOOLEAN, name \in Names :
        race_begin_addBurialRecord(s, p, act, name)
  \/ \E s \in Sessions, p \in Plots, act \in BOOLEAN, name \in Names :
        race_begin_graves_addBurialRecord(s, p, act, name)
  \/ \E s \in Sessions : race_cur(s)
  \/ \E s \in Sessions : race_graveRow(s)
  \/ \E s \in Sessions : race_count(s)
  \/ \E s \in Sessions : race_freeOld(s)
  \/ \E s \in Sessions : race_recCommit(s)
  \/ \E s \in Sessions : race_lockPlot(s)
  \/ \E s \in Sessions : race_insert(s)
  \/ \E s \in Sessions : race_updatePlot(s)
  \/ \E s \in Sessions : race_rollback(s)
  \/ \E s \in Sessions : race_commit(s)

SpecSerial == InitSerial /\ [][NextSerial]_vars

(* the plot rows and burial records SpecSerial starts from, and what one   *)
(* handler run alone makes of them                                         *)
SerialStart ==
  [plots |-> [p \in Plots |-> "occupied"], graves |-> <<NewGrave(1, TRUE, 1)>>,
   person |-> [p \in Plots |-> 1]]

SerialRun(d, t) ==
  IF t.op \in DeleteOps
    THEN IF t.r > Len(d.graves) THEN d
         ELSE LET gr == DeleteRow(d.graves, t.r)
                  p == d.graves[t.r].plot
              IN [d EXCEPT !.graves = gr,
                           !.plots[p] = IF plotHasAnyGrave(gr, p) THEN @ ELSE "available"]
  ELSE IF t.op = "admin_addBurialRecord"
    THEN IF d.plots[t.p] = "occupied" THEN d
         ELSE [d EXCEPT !.graves = Append(@, NewGrave(t.p, t.act, t.name)),
                        !.plots[t.p] = "occupied",
                        !.person[t.p] = t.name]
  ELSE [d EXCEPT !.graves = Append(@, NewGrave(t.p, t.act, t.name)),
                 !.plots[t.p] = "occupied"]

(* C27: when deleteBurialRecord and addBurialRecord ran at the same time   *)
(* on one plot and both have ended, the plot rows and burial records are   *)
(* those that running the two one after the other, in one of the two       *)
(* orders, would have left.                                                *)
C27_Serializable ==
  \A a \in Sessions : \A b \in Sessions \ {a} :
    /\ tx[a].pc = "done" /\ tx[b].pc = "done"
    /\ tx[a].op \in DeleteOps
    /\ tx[a].overlap \/ tx[b].overlap
    => [plots |-> plots, graves |-> graves, person |-> person]
         \in {SerialRun(SerialRun(SerialStart, tx[a]), tx[b]),
              SerialRun(SerialRun(SerialStart, tx[b]), tx[a])}

(* ============================== SpecAbort =============================== *)
(* One transaction at a time, one write statement per step, and a failure  *)
(* (an error thrown by a query) possible before every statement and before *)
(* COMMIT.  The handlers are those that write more than one row:           *)
(* approveReservationAsAdmin, confirmBurialRequestAsAdmin,                 *)
(* addBurialRecord, editBurialRecord and createBurialSchedule.             *)

(* the committed tables *)
Db == [plots |-> plots, reservations |-> reservations, touched |-> touched,
       graves |-> graves, requests |-> requests, person |-> person]

(* the handler's checks pass, so that it goes on to its writes *)
CanStart(op, r, p) ==
  CASE op = "visitor_approveReservationAsAdmin" ->
         /\ r \in ResIds
         /\ visitor_approveReservationAsAdminCode(r) = 200
         /\ reservations[r].status # "approved"
    [] op = "plot_approveReservationAsAdmin" ->
         r \in ResIds /\ plot_approveReservationAsAdminCode(r) = 200
    [] op = "confirmBurialRequestAsAdmin" ->
         /\ r \in ReqIds
         /\ confirmBurialRequestAsAdminCode(r) = 200
         /\ requests[r].status # "confirmed"
         /\ CanBury
    [] op = "admin_addBurialRecord" -> admin_addBurialRecordCode(p) = 201 /\ CanBury
    [] op = "admin_editBurialRecord" -> r \in GraveIds /\ admin_editBurialRecordCode(r, p) = 200
    [] op = "graves_editBurialRecord" -> r \in GraveIds
    [] OTHER -> CanBury

St(k, p, r, v) == [k |-> k, p |-> p, r |-> r, v |-> v]

(* the write statements of a handler, in the order of its code *)
Statements(t) ==
  LET d == t.snap
  IN CASE t.op = "visitor_approveReservationAsAdmin" ->
            LET p == d.reservations[t.r].plot
            IN <<St("approve", p, t.r, 0), St("plot", p, 0, "reserved"), St("reject", p, t.r, 0)>>
       [] t.op = "plot_approveReservationAsAdmin" ->
            LET p == d.reservations[t.r].plot
            IN <<St("approvePaid", p, t.r, 0), St("plot", p, 0, "reserved")>>
       [] t.op = "confirmBurialRequestAsAdmin" ->
            LET br == d.requests[t.r]
            IN <<St("insert", br.plot, 0, <<TRUE, br.name>>), St("plot", br.plot, 0, "occupied"),
                 St("person", br.plot, 0, br.name), St("request", 0, t.r, 0),
                 St("complete", br.plot, 0, br.user)>>
       [] t.op = "admin_addBurialRecord" ->
            <<St("insert", t.p, 0, <<t.act, t.name>>), St("plot", t.p, 0, "occupied"),
              St("person", t.p, 0, t.name)>>
       [] t.op = "graves_addBurialRecord" ->
            <<St("insert", t.p, 0, <<t.act, t.name>>), St("plot", t.p, 0, "occupied")>>
       [] t.op \in EditOps ->
            <<St("grave", t.p, t.r, 0), St("occupy", 0, t.r, 0),
              St("free", d.graves[t.r].plot, t.r, 0)>>
       [] OTHER ->
            <<St("plot", t.p, 0, "occupied"), St("insert", t.p, 0, <<TRUE, t.name>>)>>

(* the tables d after one statement *)
Exec(d, st) ==
  CASE st.k = "approve" ->
         LET rs == [d.reservations EXCEPT ![st.r].status = "approved"]
         IN [d EXCEPT !.reservations = rs, !.touched = Touch(@, rs, {st.r})]
    [] st.k = "approvePaid" ->
         LET rs == [d.reservations EXCEPT ![st.r].status = "approved", ![st.r].pay = "approved"]
         IN [d EXCEPT !.reservations = rs, !.touched = Touch(@, rs, {st.r})]
    [] st.k = "reject" ->
         LET ids == {o \in 1..Len(d.reservations) :
                       /\ o # st.r
                       /\ d.reservations[o].plot = st.p
                       /\ d.reservations[o].status = "pending"}
             rs == [o \in 1..Len(d.reservations) |->
                      IF o \in ids THEN [d.reservations[o] EXCEPT !.status = "rejected"]
                      ELSE d.reservations[o]]
         IN [d EXCEPT !.reservations = rs, !.touched = Touch(@, rs, ids)]
    [] st.k = "complete" ->
         LET ids == ApprovedFor(d.reservations, st.p, st.v)
             rs == [o \in 1..Len(d.reservations) |->
                      IF o \in ids THEN [d.reservations[o] EXCEPT !.status = "completed"]
                      ELSE d.reservations[o]]
         IN [d EXCEPT !.reservations = rs, !.touched = Touch(@, rs, ids)]
    [] st.k = "plot" -> [d EXCEPT !.plots[st.p] = st.v]
    [] st.k = "person" -> [d EXCEPT !.person[st.p] = st.v]
    [] st.k = "insert" -> [d EXCEPT !.graves = Append(@, NewGrave(st.p, st.v[1], st.v[2]))]
    [] st.k = "request" -> [d EXCEPT !.requests[st.r].status = "confirmed"]
    [] st.k = "grave" -> [d EXCEPT !.graves[st.r].plot = st.p]
    [] st.k = "occupy" -> [d EXCEPT !.plots[d.graves[st.r].plot] = "occupied"]
    [] OTHER ->
         IF d.graves[st.r].plot # st.p /\ ~plotHasAnyGrave(d.graves, st.p)
           THEN [d EXCEPT !.plots[st.p] = "available"]
           ELSE d

(* UPDATE plots sent through the pool, outside the transaction *)
OnClient_Pool(st) == st.k # "plot"

(* every statement of these handlers is sent on the client that ran BEGIN *)
OnClient(st) == TRUE

Install(d) ==
  /\ plots' = d.plots
  /\ reservations' = d.reservations
  /\ touched' = d.touched
  /\ graves' = d.graves
  /\ requests' = d.requests
  /\ person' = d.person

(* BEGIN, the SELECTs and the checks *)
abort_begin(s, op, u, r, p, act, name) ==
  /\ \A o \in Sessions : ~InFlight(o)
  /\ tx[s].pc = "idle"
  /\ CanStart(op, r, p)
  /\ tx' = [tx EXCEPT ![s] = [IdleTx EXCEPT
                                 !.pc = "run", !.op = op, !.u = u, !.r = r, !.p = p,
                                 !.act = act, !.name = name, !.k = 1,
                                 !.w = Db, !.snap = Db]]
  /\ UNCHANGED <<dbvars, locks>>

(* the next INSERT or UPDATE *)
abort_stmt(s) ==
  /\ tx[s].pc = "run"
  /\ tx[s].k <= Len(Statements(tx[s]))
  /\ LET st == Statements(tx[s])[tx[s].k]
     IN /\ tx' = [tx EXCEPT ![s].k = @ + 1, ![s].w = Exec(@, st)]
        /\ IF OnClient(st) THEN UNCHANGED dbvars ELSE Install(Exec(Db, st))
  /\ UNCHANGED locks

(* a query throws: catch, ROLLBACK, 500 *)
abort_fail(s) ==
  /\ tx[s].pc = "run"
  /\ tx' = [tx EXCEPT ![s].pc = "done", ![s].code = 500]
  /\ UNCHANGED <<dbvars, locks>>

(* COMMIT *)
abort_commit(s) ==
  /\ tx[s].pc = "run"
  /\ tx[s].k > Len(Statements(tx[s]))
  /\ tx' = [tx EXCEPT ![s].pc = "done", ![s].code = 200]
  /\ Install(tx[s].w)
  /\ UNCHANGED locks

(* a plot with a pending reservation whose receipt is submitted or         *)
(* validated, alone or next to another visitor's pending reservation; a    *)
(* plot reserved by an approved reservation whose holder asked for a       *)
(* burial; a plot holding a burial record next to free plots               *)
InitAbort ==
  /\ \E c \in 1..5 :
       /\ plots = [p \in MovePlots |->
                     IF p = 1 /\ c = 4 THEN "reserved"
                     ELSE IF p = 1 /\ c = 5 THEN "occupied"
                     ELSE "available"]
       /\ reservations =
            CASE c = 1 -> <<[NewRes(1, 1) EXCEPT !.receipt = TRUE, !.pay = "submitted"]>>
              [] c = 2 -> <<[NewRes(1, 1) EXCEPT !.receipt = TRUE, !.pay = "submitted"],
                            NewRes(1, 2)>>
              [] c = 3 -> <<[NewRes(1, 1) EXCEPT !.receipt = TRUE, !.pay = "validated",
                                                 !.validated = TRUE]>>
              [] c = 4 -> <<[NewRes(1, 1) EXCEPT !.status = "approved"]>>
              [] OTHER -> <<>>
       /\ touched = IF c = 4 THEN <<1>> ELSE <<>>
       /\ graves = IF c = 5 THEN <<NewGrave(1, TRUE, 1)>> ELSE <<>>
       /\ requests = IF c = 4 THEN <<NewReq(1, 1, 1)>> ELSE <<>>
       /\ person = [p \in MovePlots |-> IF p = 1 /\ c = 5 THEN 1 ELSE NoName]
  /\ tx = [s \in Sessions |-> IdleTx]
  /\ locks = [p \in MovePlots |-> 0]

NextAbort ==
  \/ \E s \in Sessions, r \in 1..2, p \in MovePlots, name \in Names,
          op \in ApproveOps \cup EditOps \cup
                   {"confirmBurialRequestAsAdmin", "admin_addBurialRecord",
                    "graves_addBurialRecord", "createBurialSchedule"} :
        abort_begin(s, op, AdminId, r, p, TRUE, name)
  \/ \E s \in Sessions : abort_stmt(s)
  \/ \E s \in Sessions : abort_fail(s)
  \/ \E s \in Sessions : abort_commit(s)

SpecAbort == InitAbort /\ [][NextAbort]_vars

(* C29: while approveReservationAsAdmin, confirmBurialRequestAsAdmin,      *)
(* addBurialRecord, editBurialRecord or createBurialSchedule is between    *)
(* BEGIN and COMMIT the committed plots, reservations, burial requests and *)
(* burial records are those of before the operation, and they still are    *)
(* when a step of the operation fails.                                     *)
C29_Running == \A s \in Sessions : tx[s].pc = "run" => Db = tx[s].snap
C29_Step ==
  \A s \in Sessions :
    tx[s].pc = "run" /\ tx'[s].pc = "done" /\ tx'[s].code = 500 => Db' = tx[s].snap
C29_AllOrNothing == [](C29_Running) /\ [][C29_Step]_vars

(* C29 case: a transaction failed after it had written *)
C29_Witness ==
  \E s \in Sessions :
    /\ tx[s].pc = "done" /\ tx[s].code = 500
    /\ tx[s].w # tx[s].snap
    /\ Db = tx[s].snap

(* ============================== SpecPlots =============================== *)
(* The burial-record handlers together with deletePlots, on plots without  *)
(* reservations or burial requests.  A deleted plot leaves the domain of   *)
(* plots and person.                                                       *)

(* DELETE FROM plots WHERE id = p; graves.plot_id REFERENCES plots(id) ON  *)
(* DELETE CASCADE deletes the plot's burial records with it                *)
deletePlots(p) ==
  /\ plots' = [q \in DOMAIN plots \ {p} |-> plots[q]]
  /\ person' = [q \in DOMAIN person \ {p} |-> person[q]]
  /\ graves' = SelectSeq(graves, LAMBDA row : row.plot # p)
  /\ UNCHANGED <<reservations, touched, requests>>

NextPlots ==
  \/ RecordOps(DOMAIN plots)
  \/ \E p \in DOMAIN plots : Quiet /\ deletePlots(p)

SpecPlots == InitBurial /\ [][NextPlots]_vars

(* C31: deletePlots on a plot that a burial record references deletes      *)
(* neither the plot nor its burial records.                                *)
C31_Step ==
  \A p \in DOMAIN plots :
    plotHasAnyGrave(graves, p) /\ deletePlots(p) =>
      p \in DOMAIN plots' /\ graves' = graves
C31_ReferencedPlotKept == [][C31_Step]_vars

(* C32: a step of createBurialRequest, cancelBurialRequest or              *)
(* changeTicketStatus changes no plot's status, no reservation and no      *)
(* burial record.                                                          *)
RequestStep ==
  \/ \E u \in Visitors, name \in Names : createBurialRequest(u, name)
  \/ \E q \in ReqIds : cancelBurialRequest(q)
  \/ \E q \in ReqIds, st \in {"pending", "approved", "canceled"} : changeTicketStatus(q, st)
C32_Step == RequestStep => plots' = plots /\ reservations' = reservations /\ graves' = graves
C32_RequestsLockNothing == [][C32_Step]_vars

(* C32 case: a burial request was made on a reserved plot and cancelled *)
C32_Witness ==
  \E q \in ReqIds :
    /\ requests[q].status = "canceled"
    /\ plots[requests[q].plot] = "reserved"
    /\ ApprovedFor(reservations, requests[q].plot, requests[q].user) # {}

(* C33: a transaction of editBurialRecord or deleteBurialRecord that is    *)
(* about to count the burial records of a plot, to decide whether the plot *)
(* becomes 'available', holds that plot's row lock.                        *)
C33_CountsUnderLock ==
  \A s \in Sessions : tx[s].pc = "count" => locks[tx[s].old] = s

(* =============================== SpecPay ================================ *)
(* validatePaymentAsAdmin, approvePaymentAsAdmin and                       *)
(* uploadReservationReceipt send a SELECT and an UPDATE through the pool,  *)
(* each its own transaction: other handlers' transactions commit between   *)
(* the two.                                                                *)

(* SELECT ... FROM plot_reservations WHERE id = r, and the checks *)
pay_begin(s, op, u, r) ==
  /\ tx[s].pc = "idle"
  /\ LET c == CASE op = "validatePaymentAsAdmin" -> validatePaymentAsAdminCode(r)
                [] op = "approvePaymentAsAdmin" -> approvePaymentAsAdminCode(r)
                [] OTHER -> uploadReservationReceiptCode(u, r)
     IN tx' = [tx EXCEPT ![s] = [IdleTx EXCEPT
                                   !.pc = IF c = 200 THEN "payWrite" ELSE "done",
                                   !.op = op, !.u = u, !.r = r, !.code = c]]
  /\ UNCHANGED <<dbvars, locks>>

(* UPDATE plot_reservations SET payment_status = ... WHERE id = r *)
pay_write(s) ==
  /\ tx[s].pc = "payWrite"
  /\ tx' = [tx EXCEPT ![s].pc = "done"]
  /\ LET r == tx[s].r
     IN CASE tx[s].op = "validatePaymentAsAdmin" ->
               SetRes([reservations EXCEPT ![r].pay = "validated", ![r].validated = TRUE], {r})
          [] tx[s].op = "approvePaymentAsAdmin" ->
               SetRes([reservations EXCEPT ![r].pay = "approved"], {r})
          [] OTHER ->
               SetRes([reservations EXCEPT ![r].receipt = TRUE, ![r].pay = "submitted"], {r})
  /\ UNCHANGED <<plots, graves, requests, person, locks>>

NextPay ==
  \/ \E s \in Sessions, u \in Visitors, r \in ResIds,
        op \in {"validatePaymentAsAdmin", "approvePaymentAsAdmin", "uploadReservationReceipt"} :
        pay_begin(s, op, u, r)
  \/ \E s \in Sessions : pay_write(s)
  \/ \E u \in Visitors, r \in ResIds : Quiet /\ cancelReservation(u, r)
  \/ \E r \in ResIds : Quiet /\ visitor_rejectReservationAsAdmin(r)
  \/ \E r \in ResIds : Quiet /\ plot_rejectReservationAsAdmin(r)
  \/ \E r \in ResIds : Quiet /\ visitor_cancelReservationAsAdmin(r)
  \/ \E r \in ResIds : Quiet /\ plot_cancelReservationAsAdmin(r)

SpecPay == InitApprove /\ [][NextPay]_vars

(* C34: the UPDATE of validatePaymentAsAdmin, approvePaymentAsAdmin or     *)
(* uploadReservationReceipt is never run on a reservation that is          *)
(* 'rejected', 'cancelled' or 'completed' when it runs.                    *)
C34_Step ==
  \A s \in Sessions :
    tx[s].pc = "payWrite" /\ tx'[s].pc = "done" =>
      reservations[tx[s].r].status \notin ClosedRes
C34_NoStalePaymentWrite == [][C34_Step]_vars

(* ============================== SpecCancel ============================== *)
(* approveReservationAsAdmin racing with cancelReservation, one SQL        *)
(* statement per step, on a plot with two pending reservations: visitor    *)
(* 1's, with a receipt submitted or validated, and visitor 2's.            *)
race_begin_cancelReservation(s, u, r) ==
  /\ tx[s].pc = "idle"
  /\ tx' = [tx EXCEPT ![s] = [IdleTx EXCEPT
                                 !.pc = "lockRes", !.op = "cancelReservation", !.u = u, !.r = r,
                                 !.overlap = \E o \in Sessions : o # s /\ InFlight(o)]]
  /\ UNCHANGED <<dbvars, locks>>

InitCancel ==
  /\ plots = [p \in Plots |-> "available"]
  /\ reservations \in
       {<<[NewRes(1, 1) EXCEPT !.receipt = TRUE, !.pay = pay, !.validated = pay = "validated"],
          NewRes(1, 2)>> : pay \in {"submitted", "validated"}}
  /\ touched = <<>>
  /\ graves = <<>>
  /\ requests = <<>>
  /\ person = [p \in Plots |-> NoName]
  /\ tx = [s \in Sessions |-> IdleTx]
  /\ locks = [p \in Plots |-> 0]

NextCancel ==
  \/ \E s \in Sessions, op \in ApproveOps, r \in ResIds :
        race_begin_approveReservationAsAdmin(s, op, r)
  \/ \E s \in Sessions, u \in Visitors, r \in ResIds : race_begin_cancelReservation(s, u, r)
  \/ \E s \in Sessions : race_lockReservation(s)
  \/ \E s \in Sessions : race_lockPlot(s)
  \/ \E s \in Sessions : race_approve_otherActive(s)
  \/ \E s \in Sessions : race_insert(s)
  \/ \E s \in Sessions : race_updatePlot(s)
  \/ \E s \in Sessions : race_rejectOthers(s)
  \/ \E s \in Sessions : race_deadlock(s)
  \/ \E s \in Sessions : race_rollback(s)
  \/ \E s \in Sessions : race_commit(s)

SpecCancel == InitCancel /\ [][NextCancel]_vars

(* C39: the visitor controller's approveReservationAsAdmin on one pending  *)
(* reservation and cancelReservation on another pending reservation of the *)
(* same plot never wait for each other's row locks in a circle.            *)
C39_NoCircularWait ==
  \A a \in Sessions : \A b \in Sessions \ {a} :
    /\ tx[a].op = "visitor_approveReservationAsAdmin"
    /\ tx[b].op = "cancelReservation"
    /\ tx[a].r # tx[b].r
    => ~(WaitsFor(a, b) /\ WaitsFor(b, a))

(* every awaited query is answered and the handler goes on: a step that    *)
(* stays possible is taken                                                 *)
FairCancel == SpecCancel /\ WF_vars(NextCancel)

(* C35: a transaction that has begun ends, by COMMIT or by ROLLBACK, and a *)
(* session whose handler has returned holds no plot or reservation row     *)
(* lock.                                                                   *)
C35_Released ==
  \A s \in Sessions :
    tx[s].pc = "done" => (\A p \in DOMAIN locks : locks[p] # s) /\ ~HoldsRes(s)
C36_Step ==
  \A q \in ReqIds :
    confirmBurialRequestAsAdmin(q) /\ Len(graves') > Len(graves) =>
      \A r \in ApprovedFor(reservations, requests[q].plot, requests[q].user) :
        reservations[r].pay = "approved"
C36_BurialOnlyWhenPaid == [][C36_Step]_vars

(* C37: from one state, a successful reservePlot and a successful          *)
(* reservePlotAsAdmin on the same available plot leave the plot in the     *)
(* same status, and so do the two approveReservationAsAdmin on the same    *)
(* pending reservation.                                                    *)
ReservePlotLeaves(u, p, st) ==
  ENABLED (reservePlotCode(u, p) = 201 /\ Quiet /\ reservePlot(u, p) /\ plots'[p] = st)
ReservePlotAsAdminLeaves(u, p, st) ==
  ENABLED (reservePlotAsAdminCode(u, p) = 201 /\ Quiet /\ reservePlotAsAdmin(u, p)
           /\ plots'[p] = st)
VisitorApproveLeaves(r, st) ==
  ENABLED (/\ visitor_approveReservationAsAdminCode(r) = 200
           /\ Quiet /\ visitor_approveReservationAsAdmin(r)
           /\ plots'[reservations[r].plot] = st)
PlotApproveLeaves(r, st) ==
  ENABLED (/\ plot_approveReservationAsAdminCode(r) = 200
           /\ Quiet /\ plot_approveReservationAsAdmin(r)
           /\ plots'[reservations[r].plot] = st)
C37_SameLockingSemantics ==
  /\ \A u1 \in Visitors, u2 \in Visitors, p \in Plots, a \in PlotStatus, b \in PlotStatus :
       /\ plots[p] = "available"
       /\ ReservePlotLeaves(u1, p, a)
       /\ ReservePlotAsAdminLeaves(u2, p, b)
       => a = b
  /\ \A r \in ResIds, a \in PlotStatus, b \in PlotStatus :
       /\ reservations[r].status = "pending"
       /\ VisitorApproveLeaves(r, a)
       /\ PlotApproveLeaves(r, b)
       => a = b

(* C38: cancelReservation and uploadReservationReceipt called by a visitor *)
(* with the id of another user's reservation answer 404, and the step      *)
(* leaves the reservation and the plot's status as they were.              *)
C38_Refused ==
  \A u \in Visitors, r \in ResIds :
    reservations[r].user # u =>
      cancelReservationCode(u, r) = 404 /\ uploadReservationReceiptCode(u, r) = 404
C38_Step ==
  \A u \in Visitors, r \in ResIds :
    /\ reservations[r].user # u
    /\ cancelReservation(u, r) \/ uploadReservationReceipt(u, r)
    => reservations'[r] = reservations[r] /\ plots' = plots
C38_OwnReservationsOnly == [](C38_Refused) /\ [][C38_Step]_vars

(* C38 case: a visitor names another visitor's open reservation, which     *)
(* either call of the holder would change                                  *)
C38_Witness ==
  \E u \in Visitors, r \in ResIds :
    /\ reservations[r].user # u
    /\ reservations[r].status = "approved"
    /\ plots[reservations[r].plot] = "reserved"
    /\ cancelReservationCode(reservations[r].user, r) = 200
    /\ uploadReservationReceiptCode(reservations[r].user, r) = 200
    /\ cancelReservationCode(u, r) = 404

(* ============================= SpecConfirm ============================== *)
(* Two sessions calling confirmBurialRequestAsAdmin, one SQL statement per *)
(* step.  The plot is reserved by visitor 1's approved reservation, and    *)
(* visitor 1 has asked for a burial on it.                                 *)
race_begin_confirmBurialRequestAsAdmin(s, q) ==
  /\ tx[s].pc = "idle"
  /\ tx' = [tx EXCEPT ![s] = [IdleTx EXCEPT
                                 !.pc = "lockReq", !.op = "confirmBurialRequestAsAdmin", !.r = q,
                                 !.overlap = \E o \in Sessions : o # s /\ InFlight(o)]]
  /\ UNCHANGED <<dbvars, locks>>

(* a confirm that goes on whatever the request's status *)
race_lockRequest_Again(s) ==
  /\ tx[s].pc = "lockReq"
  /\ tx' = [tx EXCEPT ![s].p = requests[tx[s].r].plot, ![s].u = requests[tx[s].r].user,
                      ![s].pc = "lockPlot"]
  /\ UNCHANGED <<dbvars, locks>>

(* SELECT * FROM burial_requests WHERE id = q FOR UPDATE, which waits for  *)
(* the row lock, and the checks of the status read                         *)
race_lockRequest(s) ==
  /\ tx[s].pc = "lockReq"
  /\ \A o \in Sessions \ {s} :
       ~(/\ tx[o].op = "confirmBurialRequestAsAdmin"
         /\ tx[o].r = tx[s].r
         /\ tx[o].pc \in {"lockPlot", "commit", "rollback"})
  /\ LET br == requests[tx[s].r]
     IN IF br.status = "confirmed"
          THEN tx' = [tx EXCEPT ![s].pc = "rollback", ![s].code = 200]
        ELSE IF br.status = "canceled" THEN Abort(s, 409)
        ELSE tx' = [tx EXCEPT ![s].p = br.plot, ![s].u = br.user, ![s].pc = "lockPlot"]
  /\ UNCHANGED <<dbvars, locks>>

InitConfirm ==
  /\ plots = [p \in Plots |-> "reserved"]
  /\ reservations \in {<<[NewRes(1, 1) EXCEPT !.status = "approved", !.receipt = TRUE,
                                              !.pay = pay]>> : pay \in {"submitted", "approved"}}
  /\ touched = <<1>>
  /\ graves = <<>>
  /\ requests \in {<<[NewReq(1, 1, 1) EXCEPT !.status = st]>> :
                     st \in {"pending", "approved", "canceled"}}
  /\ person = [p \in Plots |-> NoName]
  /\ tx = [s \in Sessions |-> IdleTx]
  /\ locks = [p \in Plots |-> 0]

NextConfirm ==
  \/ \E s \in Sessions, q \in ReqIds : race_begin_confirmBurialRequestAsAdmin(s, q)
  \/ \E s \in Sessions : race_lockRequest(s)
  \/ \E s \in Sessions : race_lockPlot(s)
  \/ \E s \in Sessions : race_rollback(s)
  \/ \E s \in Sessions : race_commit(s)

SpecConfirm == InitConfirm /\ [][NextConfirm]_vars

(* C40: however the steps of two confirmBurialRequestAsAdmin calls on one  *)
(* burial request interleave, at most one burial record is created for the *)
(* request, and a call that finds the request 'confirmed' answers 200 and  *)
(* changes nothing.                                                        *)
C40_AtMostOne ==
  /\ Len(graves) <= Len(requests)
  /\ Len(graves) = 1 => requests[1].status = "confirmed"
C40_Step ==
  \A s \in Sessions :
    /\ tx[s].op = "confirmBurialRequestAsAdmin"
    /\ InFlight(s)
    /\ requests[tx[s].r].status = "confirmed"
    /\ tx'[s] # tx[s]
    => /\ UNCHANGED dbvars
       /\ tx'[s].pc \in {"rollback", "done"}
       /\ tx'[s].code = 200
C40_ConfirmIdempotent == [](C40_AtMostOne) /\ [][C40_Step]_vars

(* C40 case: two overlapping calls on one request have both answered 200   *)
(* and one burial record exists                                            *)
C40_Witness ==
  \E a \in Sessions : \E b \in Sessions \ {a} :
    /\ tx[a].pc = "done" /\ tx[b].pc = "done"
    /\ tx[a].code = 200 /\ tx[b].code = 200
    /\ tx[a].r = tx[b].r
    /\ tx[b].overlap
    /\ tx[b].p = NoPlot
    /\ Len(graves) = 1
====
